---- MODULE Spec2Model ----
(***************************************************************************)
(* Room_Monitor.py: GPIO zones bridged to MQTT (Home Assistant discovery), *)
(* with runtime reclassification of zones and a priority error bus.        *)
(*                                                                         *)
(* Threads of the program that appear here:                                *)
(*   - the paho network thread, which runs _on_message (one message at a   *)
(*     time);                                                              *)
(*   - one _auto_off thread per output_tap ON command;                     *)
(*   - the main thread (start-up sequence of main()).                      *)
(* The library calls that the code wraps in try/except (client.publish,    *)
(* GPIO.setup, GPIO.output, GPIO.input, client.subscribe, the file read    *)
(* and write) may raise; which calls of a handler raise is chosen by the   *)
(* oracle of the step, within the budget faults_left.                      *)
(***************************************************************************)
EXTENDS Integers, Sequences, FiniteSets, TLC

VARIABLES
    \* ErrorBus
    errors,            \* ErrorBus._errors: items in dict (insertion) order
    dirty,             \* ErrorBus._dirty
    last_logged_fp,    \* ErrorBus._last_logged_fp: key -> fingerprint
    clock,             \* the latest value datetime.now() has returned
    logged,            \* ErrorBus log records written by the last step
    oled,              \* OledManager: the _draw_once under way, and the display
    \* zones
    device_class,      \* SENSORS[z]["device_class"]
    pin_mode,          \* direction of the zone's pin: "UNSET", "IN", "OUT"
    pin_level,         \* level GPIO.input reads on the zone's pin
    contact_states,    \* _contact_states
    last_contact_change_key,
    selected_zone,     \* _selected_zone
    selected_class,    \* _selected_class
    retained,          \* broker: topic -> retained payload ("" = none)
    subscribed,        \* topics the client has subscribed to
    file,              \* the persisted classification file (zone -> class)
    save,              \* the save_zone_classes call under way, and the .tmp file
    pcs,               \* per thread: its publish_contact_state call under way
    timers,            \* _auto_off threads of each zone, by position
    main_pc,           \* position of main(): "import", "boot", "running", ...
    RUNNING,           \* the flag RUNNING, which handle_exit clears
    edge_detect,       \* zones whose pin has GPIO.add_event_detect registered
    polled_keys,       \* polled_keys of main()
    last_polled,       \* last_polled of main(): zone -> "None" or a level
    cb_wait,           \* per zone: -1, or what is left of the sleep of a running _cb
    bounce_left,       \* per zone: what is left of bouncetime since the last _cb call
    poll_wait,         \* what is left of the sleep of the main loop
    conn,              \* the session with the broker: "up", "down"
    mqtt_ok,           \* _mqtt_ok
    outbox,            \* publishes the client holds while the session is down
    edge_ok,           \* hardware: zones whose pin supports edge detection
    faults_left,       \* library calls that may still raise in this run
    \* observation of a step (inputs and outputs of the handler that ran)
    published,         \* <<topic, payload>> publishes of the last step, in order
    calls,             \* library calls of the last step: <<kind, target, outcome>>
    io,                \* blocking I/O of the last step: <<kind, locks held>>
    window,            \* per zone: the debounce window the last level changes fell in
    handled,           \* <<topic, payload>> of the message the last step handled
    watch,             \* which of the observations below this run records
    pulse,             \* per zone: the last switch command and what followed it
    bus_hist           \* per key: raises since the key was last absent

vars == <<errors, dirty, last_logged_fp, clock, logged, oled, device_class,
          pin_mode,
          pin_level, contact_states, last_contact_change_key, selected_zone,
          selected_class, retained, subscribed, file, save, pcs, timers, main_pc,
          RUNNING,
          edge_detect, polled_keys, last_polled, cb_wait, bounce_left,
          poll_wait, conn, mqtt_ok, outbox, edge_ok, calls, io, window,
          faults_left, watch, published, handled, pulse, bus_hist>>

(***************************************************************************)
(* Bounds of the model                                                     *)
(***************************************************************************)
MaxClock == 1      \* datetime.now() takes the values 0..MaxClock
MaxCount == 2      \* raises of one key while it stays live (ErrorBus API runs)
MaxTimers == 2     \* _auto_off threads pending per zone at one time
MaxLog == 3        \* publishes remembered per zone after a switch command

(***************************************************************************)
(* Program constants                                                       *)
(***************************************************************************)
P_HIGH == 10
P_LOW == 90

Zones == {"zone1", "zone2"}
VALID_CLASSES == {"door", "window", "opening", "output_toggle", "output_tap"}
OUTPUT_CLASSES == {"output_toggle", "output_tap"}
ZONE_PLACEHOLDER == "-- Select Zone --"
CLASS_PLACEHOLDER == "-- Select Class --"

is_output_class(cls) == cls \in OUTPUT_CLASSES

(***************************************************************************)
(* ErrorBus                                                                *)
(***************************************************************************)
NoneMeta == [isNone |-> TRUE, changed |-> "", open |-> <<>>]

\* json.dumps(meta, sort_keys=True): the keys in sorted order, each followed
\* by its value
json_dumps(meta) ==
    <<"{", "changed", meta.changed, "open", "[">> \o meta.open \o <<"]", "}">>

_fingerprint(priority, message, meta) ==
    <<priority, message, IF meta.isNone THEN <<>> ELSE json_dumps(meta)>>

HasKey(errs, key) == \E i \in 1..Len(errs) : errs[i].key = key

ItemOf(errs, key) == errs[CHOOSE i \in 1..Len(errs) : errs[i].key = key]

LiveKeys(errs) == {errs[i].key : i \in 1..Len(errs)}

Now(s) == IF s.clock + s.tick > MaxClock THEN MaxClock ELSE s.clock + s.tick

\* a raise that overwrites the creation time of a live item
ErrorItemUpdate_resets_since(e, message, priority, meta, now) ==
    [e EXCEPT !.message = message,
              !.priority = priority,
              !.since = now,
              !.last_update = now,
              !.count = @ + 1,
              !.meta = IF meta.isNone THEN @ ELSE meta]

ErrorItemUpdate(e, message, priority, meta, now) ==
    [e EXCEPT !.message = message,
              !.priority = priority,
              !.last_update = now,
              !.count = @ + 1,
              !.meta = IF meta.isNone THEN @ ELSE meta]

ErrorItemNew(key, message, priority, meta, now) ==
    [key |-> key, message |-> message, priority |-> priority, since |-> now,
     last_update |-> now, count |-> 1, meta |-> meta]

\* with lock: ... of the running thread
Acquire(s, lock) == [s EXCEPT !.held = @ \cup {lock}]
Release(s, lock) == [s EXCEPT !.held = @ \ {lock}]

\* what a run that watches <<"io", "locks">> records of a publish, a write of
\* the persisted map or a write of a log file: the locks the thread holds
IoLog(s, kind) ==
    IF <<"io", "locks">> \in s.watch
    THEN [s EXCEPT !.io = Append(@, <<kind, s.held>>)]
    ELSE s

\* logger.info(...): the log records of a step are kept in runs that watch them
LogRecord(s, kind, key) ==
    IF <<"logged", "errors">> \in s.watch THEN Append(s.logged, <<kind, key>>)
    ELSE s.logged

\* a raise that logs every time
ShouldLog_every_raise(fps, key, fp, existed) == TRUE

\* (not existed) or (prev_fp != fp), prev_fp being None for an unknown key
ShouldLog(fps, key, fp, existed) ==
    \/ ~existed
    \/ key \notin DOMAIN fps
    \/ fps[key] # fp

raise_error(s, key, message, priority, meta) ==
    LET now == Now(s)
        fp == _fingerprint(priority, message, meta)
        existed == HasKey(s.errors, key)
        errs == IF existed
                THEN [i \in 1..Len(s.errors) |->
                        IF s.errors[i].key = key
                        THEN ErrorItemUpdate(s.errors[i], message, priority, meta, now)
                        ELSE s.errors[i]]
                ELSE Append(s.errors, ErrorItemNew(key, message, priority, meta, now))
        doLog == ShouldLog(s.last_logged_fp, key, fp, existed)
        \* with self._lock:
        h == Acquire(s, "ErrorBus._lock")
        u == [h EXCEPT !.errors = errs,
                       !.dirty = TRUE,
                       !.clock = now,
                       !.logged = IF doLog THEN LogRecord(s, "RAISE", key) ELSE @,
                       !.last_logged_fp = IF doLog THEN (key :> fp) @@ @ ELSE @]
    IN  Release(IF doLog THEN IoLog(u, "log") ELSE u, "ErrorBus._lock")

clear_error(s, key) ==
    IF HasKey(s.errors, key)
    THEN LET h == Acquire(s, "ErrorBus._lock")
             u == [h EXCEPT !.errors = SelectSeq(@, LAMBDA e : e.key # key),
                            !.dirty = TRUE,
                            !.logged = LogRecord(s, "CLEAR", key),
                            !.last_logged_fp = [k \in DOMAIN @ \ {key} |-> @[k]]]
         IN  Release(IoLog(u, "log"), "ErrorBus._lock")
    ELSE s

\* e1 sorts before e2 under the key (e.priority, e.since)
TopBefore(e1, e2) ==
    \/ e1.priority < e2.priority
    \/ e1.priority = e2.priority /\ e1.since < e2.since

\* min(self._errors.values(), key=...): the first item, in dict order, that
\* no other item sorts before
MinItem(errs) ==
    errs[CHOOSE i \in 1..Len(errs) :
            /\ \A j \in 1..Len(errs) : ~TopBefore(errs[j], errs[i])
            /\ \A j \in 1..(i - 1) : TopBefore(errs[i], errs[j])]

NoTop == <<>>

\* snapshot_top's first component, as a sequence of zero or one item
snapshot_top(s) == IF Len(s.errors) = 0 THEN NoTop ELSE <<MinItem(s.errors)>>

snapshot_dirty(s) == s.dirty

mark_clean(s) == [s EXCEPT !.dirty = FALSE]

(***************************************************************************)
(* Messages of the ErrorBus are f-strings: a sequence of their parts.      *)
(***************************************************************************)
Msg(text, arg) == <<text, arg>>

(***************************************************************************)
(* Topics                                                                  *)
(***************************************************************************)
availability_topic == <<"HOST", "availability">>
contact_state_topic(z) == <<z, "state">>
contact_discovery_topic(z) == <<z, "binary_sensor/config">>
switch_state_topic(z) == <<z, "switch/state">>
switch_command_topic(z) == <<z, "switch/set">>
switch_discovery_topic(z) == <<z, "switch/config">>
TOP_ZONE_SET == <<"HOST", "zone_select/set">>
TOP_CLASS_SET == <<"HOST", "class_select/set">>
TOP_ZONE_STATE == <<"HOST", "zone_select/state">>
TOP_CLASS_STATE == <<"HOST", "class_select/state">>
zone_select_discovery_topic == <<"HOST", "select/zone_select/config">>
class_select_discovery_topic == <<"HOST", "select/class_select/config">>

Topics ==
    {availability_topic, TOP_ZONE_STATE, TOP_CLASS_STATE,
     zone_select_discovery_topic, class_select_discovery_topic}
    \cup {contact_state_topic(z) : z \in Zones}
    \cup {contact_discovery_topic(z) : z \in Zones}
    \cup {switch_state_topic(z) : z \in Zones}
    \cup {switch_discovery_topic(z) : z \in Zones}

\* json.dumps(payload) of publish_entity_discovery_one: per zone the
\* descriptor is decided by the category and the class (device_class, icon)
SwitchDescriptor(cls) ==
    IF cls = "output_tap" THEN "switch:mdi:gesture-tap-button"
                          ELSE "switch:mdi:toggle-switch"

BinaryDescriptor(cls) ==
    CASE cls = "door" -> "binary_sensor:door"
      [] cls = "window" -> "binary_sensor:window"
      [] OTHER -> "binary_sensor:opening"

SwitchDescriptors == {SwitchDescriptor(c) : c \in OUTPUT_CLASSES}
BinaryDescriptors == {BinaryDescriptor(c) : c \in VALID_CLASSES \ OUTPUT_CLASSES}

\* str.lower() and str.upper() on the payloads the model sends
Lower(p) ==
    CASE p = "DOOR" -> "door"
      [] p = "Output_Tap" -> "output_tap"
      [] OTHER -> p

\* str.strip() on the keys and values the model reads
Strip(p) ==
    CASE p = " zone2" -> "zone2"
      [] p = " window " -> "window"
      [] OTHER -> p

Upper(p) ==
    CASE p = "on" -> "ON"
      [] p = "off" -> "OFF"
      [] OTHER -> p

(***************************************************************************)
(* The state a handler works on: the program's variables, and the oracle   *)
(* of the step (which library calls raise, what the input pins read, how   *)
(* far the clock moves).                                                   *)
(***************************************************************************)
OpIdx == 1..24

FailSets(k) ==
    IF k = 0 THEN {{}}
    ELSE {{}} \cup {{i} : i \in OpIdx}
         \cup (IF k >= 2 THEN {{i, j} : i, j \in OpIdx} ELSE {})

Levels == {"HIGH", "LOW"}

Cur(o) ==
    [errors |-> errors, dirty |-> dirty, last_logged_fp |-> last_logged_fp,
     clock |-> clock, logged |-> <<>>, oled |-> oled,
     device_class |-> device_class, pin_mode |-> pin_mode,
     pin_level |-> pin_level, contact_states |-> contact_states,
     last_contact_change_key |-> last_contact_change_key,
     selected_zone |-> selected_zone, selected_class |-> selected_class,
     retained |-> retained, subscribed |-> subscribed, file |-> file,
     save |-> save, pcs |-> pcs,
     timers |-> timers, main_pc |-> main_pc, RUNNING |-> RUNNING,
     published |-> <<>>,
     edge_detect |-> edge_detect, polled_keys |-> polled_keys,
     last_polled |-> last_polled, cb_wait |-> cb_wait,
     bounce_left |-> bounce_left, poll_wait |-> poll_wait, conn |-> conn,
     mqtt_ok |-> mqtt_ok, outbox |-> outbox, edge_ok |-> edge_ok,
     calls |-> <<>>, io |-> <<>>, held |-> {}, watch |-> watch,
     opn |-> 0, exc |-> FALSE,
     fails |-> o.fails, level |-> o.level, tick |-> o.tick]

Commit(s) ==
    /\ errors' = s.errors
    /\ dirty' = s.dirty
    /\ last_logged_fp' = s.last_logged_fp
    /\ clock' = s.clock
    /\ logged' = s.logged
    /\ oled' = s.oled
    /\ device_class' = s.device_class
    /\ pin_mode' = s.pin_mode
    /\ pin_level' = s.pin_level
    /\ contact_states' = s.contact_states
    /\ last_contact_change_key' = s.last_contact_change_key
    /\ selected_zone' = s.selected_zone
    /\ selected_class' = s.selected_class
    /\ retained' = s.retained
    /\ subscribed' = s.subscribed
    /\ file' = s.file
    /\ save' = s.save
    /\ pcs' = s.pcs
    /\ timers' = s.timers
    /\ main_pc' = s.main_pc
    /\ RUNNING' = s.RUNNING
    /\ published' = s.published
    /\ edge_detect' = s.edge_detect
    /\ polled_keys' = s.polled_keys
    /\ last_polled' = s.last_polled
    /\ cb_wait' = s.cb_wait
    /\ bounce_left' = s.bounce_left
    /\ poll_wait' = s.poll_wait
    /\ conn' = s.conn
    /\ mqtt_ok' = s.mqtt_ok
    /\ outbox' = s.outbox
    /\ edge_ok' = s.edge_ok
    /\ calls' = s.calls
    /\ io' = s.io
    /\ faults_left' = faults_left - Cardinality(s.fails)
    /\ s.fails \subseteq 1..s.opn

\* the next library call raises
Fails(s) == (s.opn + 1) \in s.fails

Called(s) == [s EXCEPT !.opn = @ + 1]

Raised(s) == [s EXCEPT !.exc = TRUE]

Caught(s) == [s EXCEPT !.exc = FALSE]

\* what a run that watches <<"calls", kind>> records of a library call
CallLog(s, kind, target, outcome) ==
    IF <<"calls", kind>> \in s.watch
    THEN [s EXCEPT !.calls = Append(@, <<kind, target, outcome>>)]
    ELSE s

PinOf(z) == <<z, "pin">>
CONFIG_PATH == <<"HOST", "zones.json">>
BROKER == <<"HOST", "broker">>

(***************************************************************************)
(* GPIO                                                                    *)
(***************************************************************************)
\* a set-up as output that leaves the level of the pin as it is
GPIO_setup_keeps_level(s, z, dir) ==
    IF Fails(s) THEN Raised(CallLog(Called(s), "GPIO.setup", PinOf(z), "raise"))
    ELSE [CallLog(Called(s), "GPIO.setup", PinOf(z), "ok")
            EXCEPT !.pin_mode[z] = dir,
                   !.pin_level[z] = IF dir = "OUT" THEN @ ELSE s.level[z]]

\* GPIO.setup(pin, GPIO.OUT, initial=GPIO.LOW) / GPIO.setup(pin, GPIO.IN, ...)
GPIO_setup(s, z, dir) ==
    IF Fails(s) THEN Raised(CallLog(Called(s), "GPIO.setup", PinOf(z), "raise"))
    ELSE [CallLog(Called(s), "GPIO.setup", PinOf(z), "ok")
            EXCEPT !.pin_mode[z] = dir,
                   !.pin_level[z] = IF dir = "OUT" THEN "LOW" ELSE s.level[z]]

\* GPIO.output raises RuntimeError on a channel that is not set up as an output
GPIO_output(s, z, lvl) ==
    IF Fails(s) \/ s.pin_mode[z] # "OUT"
    THEN Raised(CallLog(Called(s), "GPIO.output", PinOf(z), "raise"))
    ELSE [CallLog(Called(s), "GPIO.output", PinOf(z), "ok") EXCEPT !.pin_level[z] = lvl]

\* GPIO.input: the state after the call; the value read is s.pin_level[z]
GPIO_input(s, z) ==
    IF Fails(s) \/ s.pin_mode[z] = "UNSET"
    THEN Raised(CallLog(Called(s), "GPIO.input", PinOf(z), "raise"))
    ELSE CallLog(Called(s), "GPIO.input", PinOf(z), "ok")

_gpio_setup_for_zone(s, z) ==
    IF is_output_class(s.device_class[z])
    THEN GPIO_setup(s, z, "OUT")
    ELSE GPIO_setup(s, z, "IN")

set_output_state(s, z, on) == GPIO_output(s, z, IF on THEN "HIGH" ELSE "LOW")

\* the value get_output_state returns when GPIO.input does not raise
get_output_state(s, z) == IF s.pin_level[z] = "HIGH" THEN "ON" ELSE "OFF"

(***************************************************************************)
(* MQTT helpers                                                            *)
(***************************************************************************)
\* the kind of a topic; of the broker's side a run records what watch names:
\* <<"retained", kind>> the retained payloads of the topics of that kind,
\* <<"published", kind>> the publishes of a step on them
TopicGroup(topic) ==
    CASE topic[2] \in {"binary_sensor/config", "switch/config",
                       "select/zone_select/config", "select/class_select/config"}
           -> "discovery"
      [] topic[2] = "switch/state" -> "switch_state"
      [] topic[2] = "state" -> "contact_state"
      [] topic[2] \in {"zone_select/state", "class_select/state"} -> "select_state"
      [] topic[2] \in {"zone_select/set", "class_select/set"} -> "select_set"
      [] topic[2] = "switch/set" -> "switch_set"
      [] OTHER -> "availability"

\* client.publish(topic, payload, qos=1, retain=True): an empty retained
\* payload removes the retained message of the topic
\* while the session is down the client holds the message and sends it when
\* the session is up again
client_publish(s, topic, payload) ==
    LET kept == <<"retained", TopicGroup(topic)>> \in s.watch IN
    [IoLog(s, "publish") EXCEPT !.retained[topic] = IF kept /\ s.conn = "up" THEN payload ELSE @,
              !.outbox[topic] = IF kept /\ s.conn # "up" THEN <<payload>> ELSE @,
              !.published =
                  IF <<"published", TopicGroup(topic)>> \in s.watch
                  THEN Append(@, <<topic, payload>>) ELSE @]

\* a safe_publish that leaves MQTT_PUB_FAIL as it is when the publish succeeds
safe_publish_no_clear(s, topic, payload, context) ==
    IF Fails(s)
    THEN raise_error(CallLog(Called(s), "publish", topic, "raise"), "MQTT_PUB_FAIL",
                     Msg("MQTT publish failed:", context), P_HIGH, NoneMeta)
    ELSE client_publish(CallLog(Called(s), "publish", topic, "ok"), topic, payload)

safe_publish(s, topic, payload, context) ==
    IF Fails(s)
    THEN raise_error(CallLog(Called(s), "publish", topic, "raise"), "MQTT_PUB_FAIL",
                     Msg("MQTT publish failed:", context), P_HIGH, NoneMeta)
    ELSE clear_error(client_publish(CallLog(Called(s), "publish", topic, "ok"),
                                    topic, payload),
                     "MQTT_PUB_FAIL")

client_subscribe(s, topic) ==
    IF Fails(s) THEN Raised(CallLog(Called(s), "subscribe", topic, "raise"))
    ELSE [CallLog(Called(s), "subscribe", topic, "ok") EXCEPT !.subscribed = @ \cup {topic}]

\* a transition that leaves the old category's descriptor in place
_delete_discovery_skipped(s, topic) == s

_delete_discovery(s, topic) == safe_publish(s, topic, "", "delete")

publish_entity_discovery_one(s, z) ==
    LET cls == s.device_class[z] IN
    IF is_output_class(cls)
    THEN safe_publish(s, switch_discovery_topic(z), SwitchDescriptor(cls),
                      "discovery:switch")
    ELSE safe_publish(s, contact_discovery_topic(z), BinaryDescriptor(cls),
                      "discovery:binary")

publish_contact_state(s, z) ==
    IF is_output_class(s.device_class[z]) THEN s
    ELSE LET r == GPIO_input(s, z)
             is_open == s.pin_level[z] = "HIGH"
             changed == s.contact_states[z] # is_open
             u == IF changed
                  THEN [r EXCEPT !.contact_states[z] = is_open,
                                 !.last_contact_change_key = z]
                  ELSE r
         IN  IF r.exc THEN r
             ELSE safe_publish(u, contact_state_topic(z),
                               IF is_open THEN "ON" ELSE "OFF", "state")

publish_entity_state_one(s, z) ==
    IF is_output_class(s.device_class[z])
    THEN LET r == GPIO_input(s, z) IN
         IF r.exc THEN r
         ELSE safe_publish(r, switch_state_topic(z), get_output_state(s, z),
                           "switch_state")
    ELSE publish_contact_state(s, z)

publish_zone_class_select_discovery(s) ==
    LET s1 == safe_publish(s, zone_select_discovery_topic, "select:zone", "select:zone")
        s2 == safe_publish(s1, class_select_discovery_topic, "select:class", "select:class")
        s3 == [s2 EXCEPT !.selected_zone = ZONE_PLACEHOLDER,
                         !.selected_class = CLASS_PLACEHOLDER]
        s4 == safe_publish(s3, TOP_ZONE_STATE, ZONE_PLACEHOLDER, "select:zone_default")
    IN  safe_publish(s4, TOP_CLASS_STATE, CLASS_PLACEHOLDER, "select:class_default")

(***************************************************************************)
(* Persisted classification                                                *)
(***************************************************************************)
\* the entries of the file that load_zone_classes keeps
KeptKeys(f) ==
    {x \in DOMAIN f : Strip(x) \in Zones /\ Lower(Strip(f[x])) \in VALID_CLASSES}

\* an import that keeps every entry of a known zone, whatever its value
LoadedMap_any_value(f) ==
    [z \in {Strip(x) : x \in {y \in DOMAIN f : Strip(y) \in Zones}}
        |-> Lower(Strip(f[CHOOSE x \in DOMAIN f : Strip(x) = z]))]

\* the map load_zone_classes returns when the read does not fail (the files of
\* the runs hold no two keys that strip to one zone)
LoadedMap(f) ==
    [z \in {Strip(x) : x \in KeptKeys(f)}
        |-> Lower(Strip(f[CHOOSE x \in KeptKeys(f) : Strip(x) = z]))]

\* load_zone_classes: any exception of the read gives the empty map
load_zone_classes(s) == IF Fails(s) THEN <<>> ELSE LoadedMap(s.file)

\* the state after load_zone_classes returned
Loaded(s) ==
    CallLog(Called(s), "json.load", CONFIG_PATH, IF Fails(s) THEN "raise" ELSE "ok")

\* save_zone_classes: any exception is swallowed and leaves the file as it was
save_zone_classes(s, zmap) ==
    IF Fails(s) THEN CallLog(Called(s), "json.dump", CONFIG_PATH, "raise")
    ELSE [IoLog(CallLog(Called(s), "json.dump", CONFIG_PATH, "ok"), "write")
            EXCEPT !.file = zmap]

\* lines 160-163: the classes of SENSORS after the loaded map is applied
ApplyPersisted(s) ==
    LET m == load_zone_classes(s) IN
    [Loaded(s) EXCEPT !.device_class =
        [z \in Zones |-> IF z \in DOMAIN m THEN m[z] ELSE @[z]]]

\* lines 160-163: the classes applied at import, "opening" where none is kept
BootClasses(f) ==
    [z \in Zones |-> IF z \in DOMAIN LoadedMap(f) THEN LoadedMap(f)[z] ELSE "opening"]

(***************************************************************************)
(* Reclassification                                                        *)
(***************************************************************************)
\* step 5 of the transition, inside try/except: pass
SeedState(s, z, new_is_out) ==
    IF new_is_out
    THEN LET a == client_subscribe(s, switch_command_topic(z))
             b == GPIO_input(a, z)
         IN  IF a.exc THEN Caught(a)
             ELSE IF b.exc THEN Caught(b)
             ELSE safe_publish(b, switch_state_topic(z), get_output_state(b, z),
                               "switch_seed")
    ELSE Caught(publish_contact_state(s, z))

\* step 1 of the transition: the class is assigned, the map loaded, updated
\* and saved
PersistClass(s, zone_key, new_class) ==
    LET s1 == [s EXCEPT !.device_class[zone_key] = new_class]
        persisted == load_zone_classes(s1)
    IN  save_zone_classes(Loaded(s1), (zone_key :> new_class) @@ persisted)

\* a step 2 that swallows the failure of the pin set-up
ReconfigurePin_silent(s, zone_key) == Caught(_gpio_setup_for_zone(s, zone_key))

\* a step 2 that clears GPIO_MODE when the pin set-up succeeds
ReconfigurePin_clears(s, zone_key) ==
    LET r == _gpio_setup_for_zone(s, zone_key) IN
    IF r.exc
    THEN raise_error(Caught(r), "GPIO_MODE",
                     Msg("GPIO mode set failed:", zone_key), P_HIGH, NoneMeta)
    ELSE clear_error(r, "GPIO_MODE")

\* step 2 of the transition: try _gpio_setup_for_zone, except raise GPIO_MODE
ReconfigurePin(s, zone_key) ==
    LET r == _gpio_setup_for_zone(s, zone_key) IN
    IF r.exc
    THEN raise_error(Caught(r), "GPIO_MODE",
                     Msg("GPIO mode set failed:", zone_key), P_HIGH, NoneMeta)
    ELSE r

\* steps 1 to 4 of a transition of zone_key from its class to new_class
ApplyUntilSeed(s, zone_key, new_class) ==
    LET old == s.device_class[zone_key]
        old_is_out == is_output_class(old)
        new_is_out == is_output_class(new_class)
        \* 1) persist
        s2 == PersistClass(s, zone_key, new_class)
        \* 2) reconfigure the pin
        s3 == ReconfigurePin(s2, zone_key)
        \* 3) delete the old category's descriptor
        s4 == IF old_is_out /\ ~new_is_out
              THEN _delete_discovery(s3, switch_discovery_topic(zone_key))
              ELSE s3
        s5 == IF ~old_is_out /\ new_is_out
              THEN _delete_discovery(s4, contact_discovery_topic(zone_key))
              ELSE s4
    IN  \* 4) publish the new descriptor
        publish_entity_discovery_one(s5, zone_key)

_apply_zone_class_change(s, zone_key, new_class_raw) ==
    LET new_class == Lower(new_class_raw) IN
    IF zone_key \notin Zones THEN s
    ELSE IF new_class \notin VALID_CLASSES THEN s
    ELSE IF s.device_class[zone_key] = new_class THEN s
    ELSE \* 5) subscribe and seed, or publish the observed state
         SeedState(ApplyUntilSeed(s, zone_key, new_class), zone_key,
                   is_output_class(new_class))

(***************************************************************************)
(* _on_message                                                             *)
(***************************************************************************)
SpawnAutoOff(s, z) == [s EXCEPT !.timers[z].sleep = @ + 1]

\* the try block of the switch command branch
SwitchTry(s, z, cls, cmd) ==
    LET r == set_output_state(s, z, cmd = "ON") IN
    IF r.exc THEN r
    ELSE IF cls = "output_toggle"
    THEN safe_publish(r, switch_state_topic(z), cmd, "switch_state")
    ELSE IF cmd = "OFF"
    THEN safe_publish(r, switch_state_topic(z), "OFF", "switch_state:force_off")
    ELSE SpawnAutoOff(safe_publish(r, switch_state_topic(z), "ON", "switch_state:on"), z)

\* a switch branch that takes every payload other than ON as OFF
OnSwitchSet_else_off(s, z, payload) ==
    LET cls == s.device_class[z]
        cmd == IF Upper(payload) = "ON" THEN "ON" ELSE "OFF"
    IN  IF z \notin Zones THEN s
        ELSE IF ~is_output_class(cls) THEN s
        ELSE LET r == SwitchTry(s, z, cls, cmd) IN
             IF r.exc
             THEN raise_error(Caught(r), "GPIO_OUT",
                              Msg("GPIO output set failed:", z), P_HIGH, NoneMeta)
             ELSE r

OnSwitchSet(s, z, payload) ==
    LET cls == s.device_class[z]
        cmd == Upper(payload)
    IN  IF z \notin Zones THEN s
        ELSE IF ~is_output_class(cls) THEN s
        ELSE IF cmd \notin {"ON", "OFF"} THEN s
        ELSE LET r == SwitchTry(s, z, cls, cmd) IN
             IF r.exc
             THEN raise_error(Caught(r), "GPIO_OUT",
                              Msg("GPIO output set failed:", z), P_HIGH, NoneMeta)
             ELSE r

\* a zone pick that publishes the pick instead of bouncing to the placeholder
OnZoneSelect_shows_pick(s, z) ==
    IF z = ZONE_PLACEHOLDER
    THEN safe_publish([s EXCEPT !.selected_zone = ZONE_PLACEHOLDER],
                      TOP_ZONE_STATE, ZONE_PLACEHOLDER, "zone_state:placeholder")
    ELSE IF z \notin Zones THEN s
    ELSE safe_publish([s EXCEPT !.selected_zone = z],
                      TOP_ZONE_STATE, z, "zone_state:bounce")

OnZoneSelect(s, z) ==
    IF z = ZONE_PLACEHOLDER
    THEN safe_publish([s EXCEPT !.selected_zone = ZONE_PLACEHOLDER],
                      TOP_ZONE_STATE, ZONE_PLACEHOLDER, "zone_state:placeholder")
    ELSE IF z \notin Zones THEN s
    ELSE safe_publish([s EXCEPT !.selected_zone = z],
                      TOP_ZONE_STATE, ZONE_PLACEHOLDER, "zone_state:bounce")

\* a class pick that bounces both dropdowns
OnClassSelect_bounces_both(s, payload) ==
    IF payload = CLASS_PLACEHOLDER
    THEN safe_publish([s EXCEPT !.selected_class = CLASS_PLACEHOLDER],
                      TOP_CLASS_STATE, CLASS_PLACEHOLDER, "class_state:placeholder")
    ELSE LET c == Lower(payload) IN
         IF c \notin VALID_CLASSES THEN s
         ELSE LET s1 == [s EXCEPT !.selected_class = c]
                  z == s.selected_zone
                  s2 == IF z \in Zones THEN _apply_zone_class_change(s1, z, c) ELSE s1
                  s3 == safe_publish(s2, TOP_ZONE_STATE, ZONE_PLACEHOLDER, "zone_state:bounce")
              IN  safe_publish(s3, TOP_CLASS_STATE, CLASS_PLACEHOLDER, "class_state:bounce")

OnClassSelect(s, payload) ==
    IF payload = CLASS_PLACEHOLDER
    THEN safe_publish([s EXCEPT !.selected_class = CLASS_PLACEHOLDER],
                      TOP_CLASS_STATE, CLASS_PLACEHOLDER, "class_state:placeholder")
    ELSE LET c == Lower(payload) IN
         IF c \notin VALID_CLASSES THEN s
         ELSE LET s1 == [s EXCEPT !.selected_class = c]
                  z == s.selected_zone
                  s2 == IF z \in Zones THEN _apply_zone_class_change(s1, z, c) ELSE s1
              IN  safe_publish(s2, TOP_CLASS_STATE, CLASS_PLACEHOLDER, "class_state:bounce")

_on_message(s, topic, payload) ==
    IF topic[2] = "switch/set" THEN OnSwitchSet(s, topic[1], payload)
    ELSE IF topic = TOP_ZONE_SET THEN OnZoneSelect(s, payload)
    ELSE IF topic = TOP_CLASS_SET THEN OnClassSelect(s, payload)
    ELSE s

(***************************************************************************)
(* _on_connect, _on_disconnect                                             *)
(***************************************************************************)
\* rc = 0 is the accepted CONNECT
_on_connect(s, rc) ==
    LET s1 == [s EXCEPT !.mqtt_ok = (rc = 0)] IN
    IF rc = 0
    THEN clear_error(clear_error(s1, "MQTT_CONNECT"), "MQTT_DOWN")
    ELSE raise_error(s1, "MQTT_CONNECT", Msg("MQTT connect rc=", "5"), P_HIGH, NoneMeta)

_on_disconnect(s) ==
    raise_error([s EXCEPT !.mqtt_ok = FALSE], "MQTT_DOWN",
                Msg("MQTT disconnected rc=", "7"), P_HIGH, NoneMeta)

(***************************************************************************)
(* _auto_off: sleep, then the pin write, then the publish                  *)
(***************************************************************************)
AutoOffWrite(s, z) ==
    LET r == set_output_state(s, z, FALSE) IN
    IF r.exc
    THEN [raise_error(Caught(r), "GPIO_OUT", Msg("tap auto-off failed:", z),
                      P_HIGH, NoneMeta)
            EXCEPT !.timers[z].sleep = @ - 1]
    ELSE [r EXCEPT !.timers[z].sleep = @ - 1, !.timers[z].wrote = @ + 1]

AutoOffPublish(s, z) ==
    [safe_publish(s, switch_state_topic(z), "OFF", "switch_state:auto_off")
        EXCEPT !.timers[z].wrote = @ - 1]

(***************************************************************************)
(* main(): the start-up sequence                                           *)
(***************************************************************************)
ZoneSeq == <<"zone1", "zone2">>

\* the loops over SENSORS.keys() of the start-up; an exception leaves the loop
RECURSIVE setup_gpio(_, _)
setup_gpio(s, q) ==
    IF q = <<>> \/ s.exc THEN s
    ELSE setup_gpio(_gpio_setup_for_zone(s, Head(q)), Tail(q))

RECURSIVE publish_entity_discovery_all(_, _)
publish_entity_discovery_all(s, q) ==
    IF q = <<>> \/ s.exc THEN s
    ELSE publish_entity_discovery_all(publish_entity_discovery_one(s, Head(q)), Tail(q))

RECURSIVE PublishStatesAll(_, _)
PublishStatesAll(s, q) ==
    IF q = <<>> \/ s.exc THEN s
    ELSE PublishStatesAll(publish_entity_state_one(s, Head(q)), Tail(q))

SubscribeIfOutput(s, z) ==
    IF is_output_class(s.device_class[z])
    THEN client_subscribe(s, switch_command_topic(z))
    ELSE s

RECURSIVE SubscribeOutputs(_, _)
SubscribeOutputs(s, q) ==
    IF q = <<>> \/ s.exc THEN s
    ELSE SubscribeOutputs(SubscribeIfOutput(s, Head(q)), Tail(q))

\* setup_mqtt: client.connect may raise; then there is no client
client_connect(s) ==
    IF Fails(s) THEN Raised(CallLog(Called(s), "connect", BROKER, "raise"))
    ELSE [CallLog(Called(s), "connect", BROKER, "ok") EXCEPT !.conn = "up"]

\* GPIO.add_event_detect of an input zone at start-up; a RuntimeError puts the
\* zone among the polled ones
add_event_detect(s, z) ==
    IF is_output_class(s.device_class[z]) THEN s
    ELSE IF z \in s.edge_ok
    THEN [CallLog(s, "GPIO.add_event_detect", PinOf(z), "ok")
            EXCEPT !.edge_detect = @ \cup {z}]
    ELSE [CallLog(s, "GPIO.add_event_detect", PinOf(z), "raise")
            EXCEPT !.polled_keys = @ \cup {z}]

RECURSIVE RegisterEdges(_, _)
RegisterEdges(s, q) ==
    IF q = <<>> THEN s
    ELSE RegisterEdges(add_event_detect(s, Head(q)), Tail(q))

MainWithClient(s) ==
    LET s1 == safe_publish(s, availability_topic, "online", "availability:online")
        s2 == publish_zone_class_select_discovery(s1)
        s3 == client_subscribe(s2, TOP_ZONE_SET)
        s4 == IF s3.exc THEN s3 ELSE client_subscribe(s3, TOP_CLASS_SET)
        s5 == publish_entity_discovery_all(s4, ZoneSeq)
        s6 == PublishStatesAll(s5, ZoneSeq)
        s7 == SubscribeOutputs(s6, ZoneSeq)
    IN  IF s7.exc THEN [Caught(s7) EXCEPT !.main_pc = "crashed"]
        ELSE [RegisterEdges(s7, ZoneSeq) EXCEPT !.main_pc = "running"]

MainStartup(s) ==
    LET g == setup_gpio(s, ZoneSeq)
        c == client_connect(g)
    IN  IF g.exc
        THEN [raise_error(Caught(g), "GPIO_INIT", Msg("GPIO init failed:", ""),
                          P_HIGH, NoneMeta)
                EXCEPT !.main_pc = "exited"]
        ELSE IF c.exc
        THEN [RegisterEdges(raise_error(Caught(c), "MQTT_CONNECT",
                                        Msg("MQTT connect exception:", ""),
                                        P_HIGH, NoneMeta),
                            ZoneSeq)
                EXCEPT !.main_pc = "noclient"]
        ELSE MainWithClient(_on_connect(c, 0))

(***************************************************************************)
(* Steps                                                                   *)
(***************************************************************************)
NoOracle == [fails |-> {}, level |-> [z \in Zones |-> "LOW"], tick |-> 0]

\* the oracles of a handler's step: the input level matters to the zones in
\* zs; datetime.now() has moved on since the step before
Oracles(zs) ==
    [fails : FailSets(faults_left),
     level : {f \in [Zones -> Levels] : \A z \in Zones \ zs : f[z] = "LOW"},
     tick : {1}]

NoPulse == [cmd |-> "none", cls |-> "", overlap |-> FALSE, reclassed |-> FALSE,
            pubs |-> <<>>]
NoHist == [live |-> FALSE, first |-> 0, prio |-> 0, fp |-> <<>>, raises |-> 0,
           n |-> 0, logs |-> 0]

Cap(q) == IF Len(q) > MaxLog THEN SubSeq(q, 1, MaxLog) ELSE q

\* the payloads a step published on the switch state topic of z, in order
SwitchPubs(s, z) ==
    LET q == SelectSeq(s.published, LAMBDA e : e[1] = switch_state_topic(z))
    IN  [i \in 1..Len(q) |-> q[i][2]]

Pending(tm, z) == tm[z].sleep + tm[z].wrote

\* what a step that is not a switch command of z adds to pulse[z]
PulseFollow(s, z) ==
    IF <<"pulse", "switch_state">> \notin watch THEN pulse[z] ELSE
    [pulse[z] EXCEPT !.pubs = Cap(@ \o SwitchPubs(s, z)),
                     !.reclassed = @ \/ (s.device_class[z] # device_class[z])]

\* a switch command of z that the handler accepts starts a new record
PulseStart(s, z, cmd) ==
    IF <<"pulse", "switch_state">> \notin watch THEN pulse[z] ELSE
    [cmd |-> cmd, cls |-> device_class[z], overlap |-> Pending(timers, z) > 0,
     reclassed |-> FALSE, pubs |-> Cap(SwitchPubs(s, z))]

ErrCount(key) == IF HasKey(errors, key) THEN ItemOf(errors, key).count ELSE 0

AllPending == Pending(timers, "zone1") + Pending(timers, "zone2")

NoMessage == <<<<"", "">>, "">>

\* in ticks of 10 ms: 0.05 s, 120 ms, and the 0.02 s sleep of _cb
POLL_INTERVAL_SEC == 5
BOUNCE_MS == 12
CB_SLEEP == 2

\* a debounce window of a zone: the ticks left of it, the level changes that
\* fell in it, and the state changes published since it began
NoWindow == [left |-> 0, edges |-> 0, changes |-> 0]

\* 1 when the step published, on the contact state topic of z, a payload
\* other than the retained one
StateChanges(s, z) ==
    IF \E i \in 1..Len(s.published) :
          /\ s.published[i][1] = contact_state_topic(z)
          /\ s.published[i][2] # retained[contact_state_topic(z)]
    THEN 1 ELSE 0

WindowFollow(s) ==
    IF <<"window", "contact_state">> \notin watch THEN window ELSE
    [z \in Zones |->
        [window[z] EXCEPT !.changes =
            IF @ + StateChanges(s, z) > MaxCount THEN MaxCount
            ELSE @ + StateChanges(s, z)]]

\* the step handled the message (topic, payload); steps of the other threads
\* handle none
Observe(s, msg) ==
    /\ Commit(s)
    /\ window' = WindowFollow(s)
    /\ handled' = IF <<"handled", TopicGroup(msg[1])>> \in watch
                  THEN msg ELSE NoMessage
    /\ UNCHANGED <<bus_hist, watch>>

MainStart ==
    /\ main_pc = "boot"
    /\ \E o \in Oracles(Zones) :
         \E s \in {MainStartup(Cur(o))} :
            /\ Observe(s, NoMessage)
            /\ pulse' = [z \in Zones |-> PulseFollow(s, z)]

SwitchPayloads == {"ON", "OFF"}

\* an ON of an output_tap is sent while fewer than MaxTimers _auto_off threads
\* of the zone are pending, and commands are sent while the item GPIO_OUT has
\* counted fewer than MaxCount raises
SwitchCommand(z, payload) ==
    /\ main_pc = "running"
    /\ switch_command_topic(z) \in subscribed
    /\ ErrCount("GPIO_OUT") < MaxCount
    /\ (Upper(payload) = "ON" /\ device_class[z] = "output_tap")
         => /\ Pending(timers, z) < MaxTimers
            /\ ErrCount("GPIO_OUT") + AllPending < MaxCount
    /\ \E o \in Oracles({}) :
         LET s == _on_message(Cur(o), switch_command_topic(z), payload)
             accepted == is_output_class(device_class[z])
                         /\ Upper(payload) \in {"ON", "OFF"}
         IN  /\ Observe(s, <<switch_command_topic(z), payload>>)
             /\ pulse' = [y \in Zones |->
                            IF y = z /\ accepted
                            THEN PulseStart(s, z, Upper(payload))
                            ELSE PulseFollow(s, y)]

ZonePayloads == Zones \cup {ZONE_PLACEHOLDER, "zone99"}

ZoneSelect(payload) ==
    /\ main_pc = "running"
    /\ TOP_ZONE_SET \in subscribed
    /\ \E o \in Oracles({}) :
         \E s \in {_on_message(Cur(o), TOP_ZONE_SET, payload)} :
            /\ Observe(s, <<TOP_ZONE_SET, payload>>)
            /\ pulse' = [z \in Zones |-> PulseFollow(s, z)]

ClassPayloads == VALID_CLASSES \cup {CLASS_PLACEHOLDER, "DOOR", "garage"}

\* the messages sent while zone2 is pending keep zone2 among the input classes
\* (zone1 is the zone that takes every class)
ClassSelect(payload) ==
    /\ main_pc = "running"
    /\ selected_zone = "zone2"
         => Lower(payload) \notin {"window", "output_toggle", "output_tap"}
    /\ TOP_CLASS_SET \in subscribed
    /\ \E o \in Oracles({selected_zone}) :
         \E s \in {_on_message(Cur(o), TOP_CLASS_SET, payload)} :
            /\ Observe(s, <<TOP_CLASS_SET, payload>>)
            /\ pulse' = [z \in Zones |-> PulseFollow(s, z)]

\* an _auto_off thread of z wakes up and writes the pin
TimerWrite(z) ==
    /\ main_pc = "running"
    /\ timers[z].sleep > 0
    /\ \E o \in Oracles({}) :
         \E s \in {AutoOffWrite(Cur(o), z)} :
            /\ Observe(s, NoMessage)
            /\ pulse' = [y \in Zones |-> PulseFollow(s, y)]

\* an _auto_off thread of z that has written the pin publishes OFF
TimerPublish(z) ==
    /\ main_pc = "running"
    /\ timers[z].wrote > 0
    /\ \E o \in Oracles({}) :
         \E s \in {AutoOffPublish(Cur(o), z)} :
            /\ Observe(s, NoMessage)
            /\ pulse' = [y \in Zones |-> PulseFollow(s, y)]

(***************************************************************************)
(* Initial states                                                          *)
(***************************************************************************)
\* the file a run starts with: none (the start-up from files that earlier
\* runs or an editor have left is the subject of SpecLoad)
InitFiles == {<<>>}

InitBus ==
    /\ errors = <<>>
    /\ dirty = TRUE
    /\ last_logged_fp = <<>>
    /\ clock = 0
    /\ logged = <<>>
    /\ bus_hist = [k \in {"DOOR_OPEN", "CPU_THROTTLE"} |-> NoHist]

InitRest ==
    /\ pin_mode = [z \in Zones |-> "UNSET"]
    /\ pin_level = [z \in Zones |-> "LOW"]
    /\ contact_states = [z \in Zones |-> FALSE]
    /\ last_contact_change_key = ""
    /\ selected_zone = ZONE_PLACEHOLDER
    /\ selected_class = CLASS_PLACEHOLDER
    /\ retained = [t \in Topics |-> ""]
    /\ subscribed = {}
    /\ timers = [z \in Zones |-> [sleep |-> 0, wrote |-> 0]]
    /\ published = <<>>
    /\ handled = NoMessage
    /\ pulse = [z \in Zones |-> NoPulse]

InitZones ==
    /\ device_class = BootClasses(file)
    /\ main_pc = "boot"
    /\ InitRest

\* nothing is registered or connected before main() runs
\* no save_zone_classes call has begun, and there is no .tmp file
NoSave == [pc |-> "none", zmap |-> <<>>, old |-> <<>>,
           tmp_exists |-> FALSE, tmp_data |-> <<>>, tmp_complete |-> FALSE]

\* the threads that call publish_contact_state while the service runs: the
\* callback thread of the GPIO library and the network thread of the client
Threads == {"cb", "net"}

NoCall == [pc |-> "idle", zone |-> "", is_open |-> FALSE]

\* the display is blank (device.clear() of start) and no draw is under way
NoDraw == [pc |-> "idle", top |-> <<>>, shown |-> <<>>]

InitAcquire ==
    /\ save = NoSave
    /\ oled = NoDraw
    /\ pcs = [t \in Threads |-> NoCall]
    /\ edge_detect = {}
    /\ polled_keys = {}
    /\ last_polled = [z \in Zones |-> "None"]
    /\ cb_wait = [z \in Zones |-> -1]
    /\ bounce_left = [z \in Zones |-> 0]
    /\ poll_wait = 0
    /\ RUNNING = TRUE
    /\ conn = "down"
    /\ mqtt_ok = FALSE
    /\ outbox = [t \in Topics |-> <<>>]
    /\ calls = <<>>
    /\ io = <<>>
    /\ window = [z \in Zones |-> NoWindow]

Init ==
    /\ file \in InitFiles
    /\ faults_left = 0
    /\ watch = {<<"retained", "discovery">>, <<"published", "discovery">>,
                <<"published", "select_state">>, <<"handled", "select_set">>}
    /\ edge_ok = Zones
    /\ InitBus
    /\ InitZones
    /\ InitAcquire

Next ==
    \/ MainStart
    \/ \E z \in Zones, p \in SwitchPayloads : SwitchCommand(z, p)
    \/ \E p \in ZonePayloads : ZoneSelect(p)
    \/ \E p \in ClassPayloads : ClassSelect(p)
    \/ \E z \in Zones : TimerWrite(z)
    \/ \E z \in Zones : TimerPublish(z)

Spec == Init /\ [][Next]_vars

(***************************************************************************)
(* The ErrorBus under arbitrary calls of its API (any thread may call it)  *)
(***************************************************************************)
BusKeys == {"DOOR_OPEN", "CPU_THROTTLE"}
BusPriorities == {P_HIGH, P_LOW}
BusMessages == {Msg("Doors/Windows open:", "1"), Msg("Doors/Windows open:", "2")}
BusMetas == {NoneMeta, [isNone |-> FALSE, changed |-> "zone1", open |-> <<"zone1">>]}

\* the record of key after a raise: since the key was last absent, and in the
\* present run of raises with one fingerprint
HistRaise(h, fp, priority, now, emitted) ==
    IF ~h.live
    THEN [live |-> TRUE, first |-> now, prio |-> priority, fp |-> fp,
          raises |-> 1, n |-> 1, logs |-> emitted]
    ELSE IF h.fp # fp
    THEN [h EXCEPT !.prio = priority, !.fp = fp, !.raises = @ + 1,
                   !.n = 1, !.logs = emitted]
    ELSE [h EXCEPT !.prio = priority, !.raises = @ + 1,
                   !.n = @ + 1, !.logs = @ + emitted]

BusStep(s) ==
    /\ Commit(s)
    /\ window' = WindowFollow(s)
    /\ UNCHANGED <<pulse, watch, handled>>

BusRaise(key, message, priority, meta) ==
    /\ ErrCount(key) < MaxCount
    /\ \E tick \in 0..1 :
         LET s == raise_error(Cur([NoOracle EXCEPT !.tick = tick]),
                              key, message, priority, meta)
         IN  /\ BusStep(s)
             /\ bus_hist' = [bus_hist EXCEPT ![key] =
                               HistRaise(@, _fingerprint(priority, message, meta),
                                         priority, s.clock, Len(s.logged))]

BusClear(key) ==
    /\ BusStep(clear_error(Cur(NoOracle), key))
    /\ bus_hist' = [bus_hist EXCEPT ![key] = NoHist]

BusMarkClean ==
    /\ dirty
    /\ BusStep(mark_clean(Cur(NoOracle)))
    /\ UNCHANGED bus_hist

InitBusRun ==
    /\ file = <<>>
    /\ faults_left = 0
    /\ watch = {<<"logged", "errors">>}
    /\ edge_ok = Zones
    /\ InitBus
    /\ InitZones
    /\ InitAcquire

NextBus ==
    \/ \E k \in BusKeys, m \in BusMessages, p \in BusPriorities, x \in BusMetas :
          BusRaise(k, m, p, x)
    \/ \E k \in BusKeys : BusClear(k)
    \/ BusMarkClean

SpecBus == InitBusRun /\ [][NextBus]_vars

(***************************************************************************)
(* Properties of the ErrorBus (SpecBus)                                    *)
(***************************************************************************)
HistLive == {k \in BusKeys : bus_hist[k].live}

\* k1 sorts before k2 by (priority of the latest raise, time of the first
\* raise since the key was last absent)
HistBefore(k1, k2) ==
    \/ bus_hist[k1].prio < bus_hist[k2].prio
    \/ bus_hist[k1].prio = bus_hist[k2].prio /\ bus_hist[k1].first < bus_hist[k2].first

\* C1: after any sequence of raise_error and clear_error calls, snapshot_top
\* returns none exactly when no key is live; otherwise it returns the item of
\* a live key that no live key sorts before in (priority, creation time), the
\* creation time of an item being the time of the first raise since its key
\* was last absent, whatever was raised on the key later.
C1_SnapshotTopMinimal ==
    LET top == snapshot_top(Cur(NoOracle)) IN
    /\ (top = NoTop) <=> (HistLive = {})
    /\ LiveKeys(errors) = HistLive
    /\ \A k \in HistLive : ItemOf(errors, k).since = bus_hist[k].first
    /\ top # NoTop =>
         /\ top[1].key \in HistLive
         /\ top[1].priority = bus_hist[top[1].key].prio
         /\ \A k \in HistLive : ~HistBefore(k, top[1].key)

\* two live items of one priority; the older one was raised again after the
\* newer one was created and is still the top
C1_Witness ==
    /\ Len(errors) = 2
    /\ errors[1].priority = errors[2].priority
    /\ errors[1].since < errors[2].since
    /\ errors[1].count > 1
    /\ errors[1].last_update >= errors[2].since
    /\ snapshot_top(Cur(NoOracle)) = <<errors[1]>>

C2_RunInv ==
    \A k \in HistLive :
        /\ HasKey(errors, k)
        /\ ItemOf(errors, k).count = bus_hist[k].raises
        /\ bus_hist[k].logs = 1

C2_StepProp ==
    \A k \in BusKeys, m \in BusMessages, p \in BusPriorities, x \in BusMetas :
        BusRaise(k, m, p, x) =>
            logged' = IF ~bus_hist[k].live \/ bus_hist[k].fp # _fingerprint(p, m, x)
                      THEN <<<<"RAISE", k>>>>
                      ELSE <<>>

\* C2: a raise_error on key k writes exactly one log record if k is not live
\* or its fingerprint differs from the one last logged for k, and none
\* otherwise; so a run of n raises of k with one fingerprint and no clear in
\* between has written one log record, and the occurrence count of k is the
\* number of raises since k was last absent (n when the run started there).
C2_LogOnChange == []C2_RunInv /\ [][C2_StepProp]_vars

\* a key raised twice with one fingerprint since it was absent
C2_Witness ==
    \E k \in BusKeys :
        /\ bus_hist[k].live
        /\ bus_hist[k].n = 2
        /\ bus_hist[k].raises = 2
        /\ ItemOf(errors, k).count = 2
        /\ bus_hist[k].logs = 1

\* what a consumer of the bus renders from: the live keys with the priority,
\* message and metadata of each
Aggregate(errs) ==
    {<<errs[i].key, errs[i].priority, errs[i].message, errs[i].meta>> :
        i \in 1..Len(errs)}

\* C21: the dirty flag is true if and only if the aggregate state (the live
\* items and the priority, message and metadata of each) changed since the
\* last mark_clean: a step that changes the aggregate leaves the flag set, and
\* the flag goes from clear to set only in a step that changes the aggregate;
\* a clear_error on an absent key leaves the live set, the flag and the log
\* unchanged.
C21_DirtyIffChanged ==
    [][/\ Aggregate(errors') # Aggregate(errors) => dirty'
       /\ (~dirty /\ dirty') => Aggregate(errors') # Aggregate(errors)
       /\ \A k \in BusKeys :
            (BusClear(k) /\ ~HasKey(errors, k)) =>
                /\ errors' = errors
                /\ dirty' = dirty
                /\ logged' = <<>>]_vars

(***************************************************************************)
(* Properties of the selection and of the reclassification (Spec)          *)
(***************************************************************************)
DiscoveryHeld(z) ==
    <<retained[contact_discovery_topic(z)], retained[switch_discovery_topic(z)]>>

\* C3: once main() has published the start-up state, and after every class
\* change _apply_zone_class_change applies, exactly one of the two discovery
\* topics of a zone holds a retained descriptor, the one of the category of
\* the zone's class, and the other holds the empty (delete) payload.
C3_OneDescriptorPerZone ==
    main_pc = "running" =>
        \A z \in Zones :
            DiscoveryHeld(z) =
                IF is_output_class(device_class[z])
                THEN <<"", SwitchDescriptor(device_class[z])>>
                ELSE <<BinaryDescriptor(device_class[z]), "">>

\* zone1 was an input at start-up (no file) and has just been made an output:
\* its binary-sensor descriptor is deleted and its switch descriptor published
C3_Witness ==
    /\ file = [zone1 |-> "output_tap"]
    /\ device_class["zone1"] = "output_tap"
    /\ published = <<<<contact_discovery_topic("zone1"), "">>,
                     <<switch_discovery_topic("zone1"), SwitchDescriptor("output_tap")>>,
                     <<TOP_CLASS_STATE, CLASS_PLACEHOLDER>>>>
    /\ DiscoveryHeld("zone1") = <<"", SwitchDescriptor("output_tap")>>

ZoneStatePubs(q) == SelectSeq(q, LAMBDA e : e[1] = TOP_ZONE_STATE)
ClassStatePubs(q) == SelectSeq(q, LAMBDA e : e[1] = TOP_CLASS_STATE)

\* the step handled a zone-select message with payload p
ZonePicked(p) == handled' = <<TOP_ZONE_SET, p>> /\ ZoneSelect(p)

\* the step handled a class-select message with payload p
ClassPicked(p) == handled' = <<TOP_CLASS_SET, p>> /\ ClassSelect(p)

C8_ZonePick ==
    \A z \in Zones :
        ZonePicked(z) =>
            /\ selected_zone' = z
            /\ published' = <<<<TOP_ZONE_STATE, ZONE_PLACEHOLDER>>>>
            /\ device_class' = device_class

C8_ClassPick ==
    \A c \in ClassPayloads :
        ( /\ selected_zone \in Zones
          /\ Lower(c) \in VALID_CLASSES
          /\ Lower(c) # device_class[selected_zone]
          /\ ClassPicked(c) ) =>
            /\ device_class' = [device_class EXCEPT ![selected_zone] = Lower(c)]
            /\ Len(published') > 1
            /\ published'[Len(published')] = <<TOP_CLASS_STATE, CLASS_PLACEHOLDER>>
            /\ ClassStatePubs(published') = <<<<TOP_CLASS_STATE, CLASS_PLACEHOLDER>>>>

\* the pending zone stays as picked until the next zone-select message
C8_PickKept ==
    (main_pc = "running" /\ handled'[1] # TOP_ZONE_SET)
        => selected_zone' = selected_zone

\* C8: a zone-select message with a real zone z makes z the pending zone and
\* publishes the placeholder on the zone dropdown state topic; the pending
\* zone stays z until the next zone-select message; a class-select message
\* with a valid class c other than the class of the pending zone z sets the
\* class of z to c, leaves the class of every other zone, and publishes the
\* placeholder on the class dropdown state topic as the last publish of the
\* handler, after those of the transition.
C8_SelectApplies == [][C8_ZonePick /\ C8_ClassPick /\ C8_PickKept]_vars

\* from no file: zone1 picked, then class output_tap picked and applied to it
C8_Witness ==
    /\ handled = <<TOP_CLASS_SET, "output_tap">>
    /\ selected_zone = "zone1"
    /\ device_class = [zone1 |-> "output_tap", zone2 |-> "opening"]
    /\ file = [zone1 |-> "output_tap"]
    /\ published[Len(published)] = <<TOP_CLASS_STATE, CLASS_PLACEHOLDER>>

\* C9: a class-select message with a valid class, handled while the pending
\* zone is the placeholder, changes no zone's class, pin mode or level, not
\* the persisted map and no discovery descriptor, and publishes nothing on
\* the zone dropdown state topic.
C9_NoZoneNoChange ==
    [][\A c \in ClassPayloads :
          ( /\ selected_zone = ZONE_PLACEHOLDER
            /\ Lower(c) \in VALID_CLASSES
            /\ ClassPicked(c) ) =>
              /\ UNCHANGED <<device_class, pin_mode, pin_level, file>>
              /\ \A z \in Zones : DiscoveryHeld(z)' = DiscoveryHeld(z)
              /\ ZoneStatePubs(published') = <<>>
              /\ published' = <<<<TOP_CLASS_STATE, CLASS_PLACEHOLDER>>>>]_vars

\* a valid class was picked with no zone pending: the step published the
\* class bounce only and the pending zone is the placeholder
C9_Witness ==
    /\ handled = <<TOP_CLASS_SET, "DOOR">>
    /\ selected_zone = ZONE_PLACEHOLDER
    /\ selected_class = "door"
    /\ published = <<<<TOP_CLASS_STATE, CLASS_PLACEHOLDER>>>>

\* C10: after the handling of every class-select message with a valid class
\* (applied or ignored), and after publish_zone_class_select_discovery, the
\* pending zone and the pending class are both the placeholder.
C10_SelectionReset ==
    ( \/ handled[1] = TOP_CLASS_SET /\ Lower(handled[2]) \in VALID_CLASSES
      \/ \E i \in 1..Len(published) : published[i][1] = zone_select_discovery_topic )
        => (selected_zone = ZONE_PLACEHOLDER /\ selected_class = CLASS_PLACEHOLDER)

(***************************************************************************)
(* The switch commands and the _auto_off threads (SpecPulse)               *)
(***************************************************************************)
\* the runs of the switch commands start from a kept map in which zone1 is an
\* output_tap; the commands are those of zone1, and the dropdowns move zone1
\* between the two output classes and an input class
PulseZone == "zone1"
PulsePayloads == {"ON", "OFF", "TOGGLE"}
PulseClasses == {"output_tap", "output_toggle", "door"}

InitPulse ==
    /\ file = [zone1 |-> "output_tap", zone2 |-> "door"]
    /\ faults_left = 0
    /\ watch = {<<"retained", "switch_state">>, <<"published", "switch_state">>,
                <<"pulse", "switch_state">>}
    /\ edge_ok = Zones
    /\ InitBus
    /\ InitZones
    /\ InitAcquire

\* an _auto_off thread that sleeps wakes up, and one that has written the pin
\* goes on to publish: the threads are scheduled by the operating system
NextPulse ==
    \/ MainStart
    \/ \E p \in PulsePayloads : SwitchCommand(PulseZone, p)
    \/ ZoneSelect(PulseZone)
    \/ \E c \in PulseClasses : ClassSelect(c)
    \/ \E z \in Zones : TimerWrite(z)
    \/ \E z \in Zones : TimerPublish(z)

SpecPulse ==
    /\ InitPulse
    /\ [][NextPulse]_vars
    /\ \A z \in Zones : WF_vars(TimerWrite(z)) /\ WF_vars(TimerPublish(z))

\* the last command of z was an ON handled while z was an output_tap, and z
\* has not been reclassified since
TapPulse(z) ==
    /\ pulse[z].cmd = "ON"
    /\ pulse[z].cls = "output_tap"
    /\ ~pulse[z].reclassed

\* no _auto_off thread of an earlier command was pending when it was handled
Alone(z) == ~pulse[z].overlap

Sleeping(z) == TapPulse(z) /\ Alone(z) /\ Pending(timers, z) > 0

TapPulseAloneSafe ==
    \A z \in Zones :
        (TapPulse(z) /\ Alone(z)) =>
            IF timers[z].sleep > 0
            THEN /\ pulse[z].pubs = <<"ON">>
                 /\ pin_level[z] = "HIGH"
                 /\ retained[switch_state_topic(z)] = "ON"
            ELSE IF timers[z].wrote > 0
            THEN /\ pulse[z].pubs = <<"ON">>
                 /\ pin_level[z] = "LOW"
            ELSE /\ pulse[z].pubs = <<"ON", "OFF">>
                 /\ pin_level[z] = "LOW"
                 /\ retained[switch_state_topic(z)] = "OFF"

\* The pulse of an ON command handled while no _auto_off thread of an earlier
\* command of the zone is pending, and followed by no further command and no
\* reclassification of the zone: the pin is active until the thread writes it
\* idle, which eventually happens, and the publishes on the switch state
\* topic are ON, then OFF.
TapPulseAlone ==
    /\ []TapPulseAloneSafe
    /\ \A z \in Zones : Sleeping(z) ~> ~Sleeping(z)

\* a pulse of zone1 that ran alone and is over
TapPulseAloneDone ==
    /\ TapPulse("zone1") /\ Alone("zone1")
    /\ Pending(timers, "zone1") = 0
    /\ pulse["zone1"].pubs = <<"ON", "OFF">>
    /\ pin_level["zone1"] = "LOW"

\* C4: for a zone of class output_tap, an ON command followed by no further
\* command for that zone drives the pin active until its own auto-revert, and
\* the publishes on the switch state topic for that command are ON first and
\* OFF second, two in all.
C4_TapPulse ==
    \A z \in Zones :
        TapPulse(z) =>
            /\ pulse[z].pubs \in {<<"ON">>, <<"ON", "OFF">>}
            /\ timers[z].sleep > 0 => pin_level[z] = "HIGH"

\* the last command of z was an ON handled while z was an output_toggle, and
\* z has not been reclassified since
ToggleOn(z) ==
    /\ pulse[z].cmd = "ON"
    /\ pulse[z].cls = "output_toggle"
    /\ ~pulse[z].reclassed

\* C5: for a zone whose class is output_toggle, after an ON command is handled
\* the pin stays active and the retained switch state stays ON until a later
\* command for that zone or a reclassification of it; nothing else drives the
\* pin idle or publishes OFF, whatever the zone's earlier classes and commands.
C5_ToggleHolds ==
    \A z \in Zones :
        ToggleOn(z) =>
            /\ pin_level[z] = "HIGH"
            /\ retained[switch_state_topic(z)] = "ON"
            /\ pulse[z].pubs = <<"ON">>

\* C6: an _auto_off thread writes the pin of its zone only while the zone's
\* class is output_tap, the role that scheduled it; after a reclassification
\* of the zone away from that role its pending auto-revert writes no pin and
\* publishes no state.
C6_WriteOnlyAsTap ==
    [][\A z \in Zones :
          timers'[z].wrote = timers[z].wrote + 1
              => device_class[z] = "output_tap"]_vars

\* the last command of z was an OFF handled while z was an output_tap, and z
\* has not been reclassified since
TapOff(z) ==
    /\ pulse[z].cmd = "OFF"
    /\ pulse[z].cls = "output_tap"
    /\ ~pulse[z].reclassed

\* C7: for a zone of class output_tap, an explicit OFF command that arrives
\* after an ON command and before the hold delay elapses drives the pin idle
\* and publishes OFF, and the pending auto-revert then publishes nothing:
\* exactly one OFF is published on the switch state topic for that pulse.
C7_OneOff ==
    \A z \in Zones :
        TapOff(z) =>
            /\ pin_level[z] = "LOW"
            /\ pulse[z].pubs = <<"OFF">>

(***************************************************************************)
(* The import of a persisted map: any file an earlier run, an editor or a  *)
(* restore may have left                                                   *)
(***************************************************************************)
LoadKeys == {"zone1", " zone2", "zone99"}
LoadValues == {"door", "DOOR", " window ", "garage", "output_tap"}

\* the files over LoadKeys: every key is absent or holds one of LoadValues
LoadFiles ==
    UNION {[ks -> LoadValues] : ks \in SUBSET LoadKeys}

\* SENSORS as the module text defines it: every zone is "opening"
InitLoad ==
    /\ file \in LoadFiles
    /\ faults_left = 0
    /\ watch = {<<"retained", "discovery">>, <<"calls", "json.load">>}
    /\ edge_ok = Zones
    /\ device_class = [z \in Zones |-> "opening"]
    /\ main_pc = "import"
    /\ InitBus
    /\ InitRest
    /\ InitAcquire

\* the module body up to main(): the persisted map is loaded and applied
ImportModule ==
    /\ main_pc = "import"
    /\ \E o \in Oracles({}) :
         LET s == ApplyPersisted(Cur(o)) IN
         /\ Observe([s EXCEPT !.main_pc = "boot"], NoMessage)
         /\ UNCHANGED pulse

NextLoad ==
    \/ ImportModule
    \/ MainStart

SpecLoad == InitLoad /\ [][NextLoad]_vars

\* the entry of the file for zone z, "" when no key strips to z
EntryOf(f, z) ==
    IF \E x \in DOMAIN f : Strip(x) = z
    THEN f[CHOOSE x \in DOMAIN f : Strip(x) = z] ELSE ""

Imported == main_pc \in {"boot", "running"}

\* C20 as amended: the import keeps exactly the entries whose key, stripped,
\* is a known zone and whose value, stripped and lower-cased, is a valid
\* class; it keeps them with the normalised value, leaves every other zone at
\* "opening", and adds no item to the ErrorBus
C20_LoadKeepsNormalised ==
    Imported =>
        /\ \A z \in Zones :
              device_class[z] =
                  IF Lower(Strip(EntryOf(file, z))) \in VALID_CLASSES
                  THEN Lower(Strip(EntryOf(file, z))) ELSE "opening"
        /\ LiveKeys(errors) = {}

\* the start-up has run on a file that holds a junk key, an invalid value and
\* a value that is valid only after normalisation
C20_Witness ==
    /\ Imported /\ main_pc = "running"
    /\ DOMAIN file = LoadKeys
    /\ file["zone1"] = "garage" /\ file[" zone2"] = " window "
    /\ device_class = [zone1 |-> "opening", zone2 |-> "window"]
    /\ pin_mode = [zone1 |-> "IN", zone2 |-> "IN"]

\* C20 as stated: the import keeps exactly the entries whose key is a known
\* zone and whose value is a valid class, and leaves the other zones at
\* "opening"
C20_LoadKeepsExactlyValid ==
    Imported =>
        \A z \in Zones :
            device_class[z] =
                IF z \in DOMAIN file /\ file[z] \in VALID_CLASSES
                THEN file[z] ELSE "opening"

(***************************************************************************)
(* Inbound messages: every message the three subscriptions can deliver     *)
(***************************************************************************)
InitInbound ==
    /\ file = [zone1 |-> "output_toggle", zone2 |-> "door"]
    /\ faults_left = 0
    /\ watch = {<<"retained", "discovery">>, <<"retained", "select_state">>,
                <<"handled", "select_set">>, <<"handled", "switch_set">>}
    /\ edge_ok = Zones
    /\ InitBus
    /\ InitZones
    /\ InitAcquire

InboundPayloads == {"ON", "OFF", "on", "TOGGLE"}

NextInbound ==
    \/ MainStart
    \/ \E z \in Zones, p \in InboundPayloads : SwitchCommand(z, p)
    \/ \E p \in ZonePayloads : ZoneSelect(p)
    \/ \E p \in ClassPayloads : ClassSelect(p)
    \/ \E z \in Zones : TimerWrite(z)
    \/ \E z \in Zones : TimerPublish(z)

SpecInbound == InitInbound /\ [][NextInbound]_vars

\* the messages the handler has no use for: a zone pick that names no zone of
\* SENSORS, a class pick that names no valid class, a switch command whose
\* payload is neither ON nor OFF
Ignorable(m) ==
    \/ m[1] = TOP_ZONE_SET /\ m[2] \notin Zones \cup {ZONE_PLACEHOLDER}
    \/ m[1] = TOP_CLASS_SET /\ m[2] # CLASS_PLACEHOLDER
                            /\ Lower(m[2]) \notin VALID_CLASSES
    \/ m[1][2] = "switch/set" /\ Upper(m[2]) \notin {"ON", "OFF"}

\* C19: the step that handles such a message changes no class, no pin, not
\* the persisted map, no retained descriptor or dropdown state, not the
\* pending selection, and leaves the ErrorBus as it was
C19_IgnoredInbound ==
    [][Ignorable(handled') =>
          UNCHANGED <<device_class, pin_mode, pin_level, file, retained,
                      selected_zone, selected_class, errors, dirty,
                      subscribed, timers>>]_vars

\* a payload that is no command has just reached the switch of a zone that is
\* switched on, while a zone pick is pending
C19_Witness ==
    /\ handled = <<switch_command_topic("zone1"), "TOGGLE">>
    /\ device_class["zone1"] = "output_toggle"
    /\ pin_level["zone1"] = "HIGH"
    /\ selected_zone = "zone2"
    /\ errors = <<>>

(***************************************************************************)
(* The session with the broker                                             *)
(***************************************************************************)
\* the session is lost: the broker publishes the will and, the session being
\* a clean one (clean_session=True), forgets the subscriptions; the network
\* thread calls _on_disconnect
Disconnect ==
    /\ main_pc = "running"
    /\ conn = "up"
    /\ \E o \in Oracles({}) :
         LET s == _on_disconnect(Cur(o))
             w == <<"retained", "availability">> \in watch
         IN  /\ Observe([s EXCEPT !.conn = "down", !.subscribed = {},
                                   !.retained[availability_topic] =
                                       IF w THEN "offline" ELSE @],
                         NoMessage)
             /\ pulse' = [z \in Zones |-> PulseFollow(s, z)]

\* the messages the client held while the session was down reach the broker,
\* or the client has dropped them
Flushed(s, flush) ==
    [s EXCEPT !.retained = [tp \in Topics |->
                               IF flush /\ s.outbox[tp] # <<>>
                               THEN s.outbox[tp][1] ELSE @[tp]],
              !.outbox = [tp \in Topics |-> <<>>]]

\* the network thread reconnects (loop_start); the broker accepts (rc = 0) or
\* refuses, and the thread calls _on_connect
Reconnect(rc, flush) ==
    /\ main_pc = "running"
    /\ conn = "down"
    /\ rc # 0 => ErrCount("MQTT_CONNECT") < MaxCount
    /\ \E o \in Oracles({}) :
         \E s \in {_on_connect(Cur(o), rc)} :
            /\ Observe(IF rc = 0 THEN [Flushed(s, flush) EXCEPT !.conn = "up"] ELSE s,
                       NoMessage)
            /\ pulse' = [z \in Zones |-> PulseFollow(s, z)]

(***************************************************************************)
(* Runs in which library calls raise                                       *)
(***************************************************************************)
MaxFaults == 1

FaultZone == "zone1"
FaultClasses == {"door", "output_toggle", "output_tap"}

InitFault ==
    /\ file = [zone1 |-> "output_toggle", zone2 |-> "door"]
    /\ faults_left = MaxFaults
    /\ watch = {<<"calls", "json.load">>, <<"calls", "json.dump">>,
                <<"calls", "GPIO.setup">>,
                <<"calls", "GPIO.input">>, <<"calls", "GPIO.output">>,
                <<"calls", "publish">>, <<"calls", "subscribe">>,
                <<"calls", "connect">>,
                <<"handled", "select_set">>, <<"handled", "switch_set">>}
    /\ edge_ok = Zones
    /\ InitBus
    /\ InitZones
    /\ InitAcquire

NextFault ==
    \/ MainStart
    \/ \E p \in {"ON", "OFF"} : SwitchCommand(FaultZone, p)
    \/ ZoneSelect(FaultZone)
    \/ \E c \in FaultClasses : ClassSelect(c)
    \/ TimerWrite(FaultZone)
    \/ TimerPublish(FaultZone)
    \/ Disconnect
    \/ \E rc \in {0, 5}, flush \in BOOLEAN : Reconnect(rc, flush)

SpecFault == InitFault /\ [][NextFault]_vars

PinDirection(cls) == IF is_output_class(cls) THEN "OUT" ELSE "IN"

\* C11: once the start-up has set the pins up, every zone has one of the five
\* classes and its pin has the direction of its class
C11_PinMatchesClass ==
    main_pc = "running" =>
        \A z \in Zones : /\ device_class[z] \in VALID_CLASSES
                         /\ pin_mode[z] = PinDirection(device_class[z])

\* the calls of a step without their outcomes
RECURSIVE Targets(_)
Targets(q) ==
    IF q = <<>> THEN <<>> ELSE <<<<Head(q)[1], Head(q)[2]>>>> \o Targets(Tail(q))

\* the message is a class pick that starts a transition of the pending zone
Transition(m) ==
    /\ m[1] = TOP_CLASS_SET
    /\ Lower(m[2]) \in VALID_CLASSES
    /\ selected_zone \in Zones
    /\ device_class[selected_zone] # Lower(m[2])

DiscoveryOf(z, cls) ==
    IF is_output_class(cls) THEN switch_discovery_topic(z) ELSE contact_discovery_topic(z)

\* steps 1 to 4 of the transition of z from old to new
StepsOneToFour(z, old, new) ==
    <<<<"json.load", CONFIG_PATH>>, <<"json.dump", CONFIG_PATH>>,
      <<"GPIO.setup", PinOf(z)>>>>
    \o (IF is_output_class(old) # is_output_class(new)
        THEN <<<<"publish", DiscoveryOf(z, old)>>>> ELSE <<>>)
    \o <<<<"publish", DiscoveryOf(z, new)>>>>

StepFive(z, new) ==
    IF is_output_class(new)
    THEN <<<<"subscribe", switch_command_topic(z)>>, <<"GPIO.input", PinOf(z)>>,
           <<"publish", switch_state_topic(z)>>>>
    ELSE <<<<"GPIO.input", PinOf(z)>>, <<"publish", contact_state_topic(z)>>>>

PinSetupFailed(q) == Len(q) >= 3 /\ q[3] = <<"GPIO.setup", PinOf(selected_zone), "raise">>

\* C14: the step that handles a class pick which starts a transition makes
\* its calls in the order persist (load, save), pin set-up, delete of the old
\* category's descriptor when the category changes, new descriptor, step 5
\* (subscribe, read, seed for an output; read, publish for an input), and a
\* raising call ends nothing but step 5; when the pin set-up raises,
\* GPIO_MODE is live at P_HIGH after the step and the descriptor was
\* published all the same
C14_TransitionOrder ==
    [][Transition(handled') =>
         LET z == selected_zone
             old == device_class[z]
             new == Lower(handled'[2])
             head == StepsOneToFour(z, old, new)
             five == StepFive(z, new)
         IN  /\ device_class'[z] = new
             /\ \E n \in 1..Len(five) :
                   /\ Targets(calls') = head \o SubSeq(five, 1, n)
                                              \o <<<<"publish", TOP_CLASS_STATE>>>>
                   /\ n < Len(five) => calls'[Len(head) + n][3] = "raise"
             /\ PinSetupFailed(calls') =>
                   /\ HasKey(errors', "GPIO_MODE")
                   /\ ItemOf(errors', "GPIO_MODE").priority = P_HIGH]_vars

\* a transition of zone1 from output to input whose pin set-up raised has
\* deleted the switch descriptor and published the contact descriptor
C14_Witness ==
    /\ handled = <<TOP_CLASS_SET, "door">>
    /\ Len(calls) = 8
    /\ calls[3] = <<"GPIO.setup", PinOf("zone1"), "raise">>
    /\ calls[4] = <<"publish", switch_discovery_topic("zone1"), "ok">>
    /\ calls[5] = <<"publish", contact_discovery_topic("zone1"), "ok">>
    /\ HasKey(errors, "GPIO_MODE")
    /\ device_class["zone1"] = "door" /\ pin_mode["zone1"] = "OUT"

\* the publishes among the calls of the last step
Publishes(q) == SelectSeq(q, LAMBDA c : c[1] = "publish")

LiveAt(key, priority) ==
    HasKey(errors, key) /\ ItemOf(errors, key).priority = priority

\* C18: after a step whose last publish raised, MQTT_PUB_FAIL is live at
\* P_HIGH, and after a step whose last publish succeeded it is not live;
\* while the session is down after a disconnect MQTT_DOWN is live at P_HIGH,
\* and once a connect has succeeded neither MQTT_DOWN nor MQTT_CONNECT is live
C18_TransientFaults ==
    /\ Publishes(calls) # <<>> =>
          LET last == Publishes(calls)[Len(Publishes(calls))] IN
          /\ last[3] = "raise" => LiveAt("MQTT_PUB_FAIL", P_HIGH)
          /\ last[3] = "ok" => ~HasKey(errors, "MQTT_PUB_FAIL")
    /\ main_pc = "running" =>
          /\ conn = "down" => LiveAt("MQTT_DOWN", P_HIGH)
          /\ conn = "up" => /\ ~HasKey(errors, "MQTT_DOWN")
                            /\ ~HasKey(errors, "MQTT_CONNECT")

\* the session is down, a reconnect was refused, and the publish of a pulse
\* timer has just raised: the three items are live
C18_Witness ==
    /\ main_pc = "running" /\ conn = "down" /\ ~mqtt_ok
    /\ calls = <<<<"publish", switch_state_topic("zone1"), "raise">>>>
    /\ LiveAt("MQTT_PUB_FAIL", P_HIGH)
    /\ LiveAt("MQTT_DOWN", P_HIGH)
    /\ LiveAt("MQTT_CONNECT", P_HIGH)

(***************************************************************************)
(* Input acquisition: edge callbacks and the polling loop of main()        *)
(* Time is counted in ticks of 10 ms.                                      *)
(***************************************************************************)
NumStr(n) == CASE n = 1 -> "1" [] n = 2 -> "2" [] OTHER -> "0"

RECURSIVE OpenKeys(_, _)
OpenKeys(s, q) ==
    IF q = <<>> THEN <<>>
    ELSE (IF ~is_output_class(s.device_class[Head(q)]) /\ s.contact_states[Head(q)]
          THEN <<Head(q)>> ELSE <<>>) \o OpenKeys(s, Tail(q))

get_open_keys_ordered(s) == OpenKeys(s, ZoneSeq)

update_door_open_state(s) ==
    LET open_keys == get_open_keys_ordered(s)
        changed_key == s.last_contact_change_key
    IN  IF open_keys # <<>>
        THEN raise_error(s, "DOOR_OPEN",
                         <<"Doors/Windows open:", NumStr(Len(open_keys)), changed_key>>,
                         P_LOW,
                         [isNone |-> FALSE, changed |-> changed_key, open |-> open_keys])
        ELSE clear_error(s, "DOOR_OPEN")

\* one zone of the for loop over list(polled_keys)
PollOne(s, k) ==
    IF is_output_class(s.device_class[k])
    THEN [s EXCEPT !.polled_keys = @ \ {k}]
    ELSE LET r == GPIO_input(s, k)
             v == s.pin_level[k]
         IN  IF r.exc THEN r
             ELSE IF s.last_polled[k] = "None" \/ v # s.last_polled[k]
             THEN publish_contact_state([r EXCEPT !.last_polled[k] = v], k)
             ELSE r

\* the for loop; an exception leaves it
RECURSIVE PollAll(_, _)
PollAll(s, q) ==
    IF q = <<>> \/ s.exc THEN s
    ELSE PollAll(IF Head(q) \in s.polled_keys THEN PollOne(s, Head(q)) ELSE s, Tail(q))

\* one pass of the while loop of main(), up to its sleep; an exception of the
\* pass leaves main()
MainLoopPass(s, order, due) ==
    LET s1 == IF s.main_pc = "running" THEN PollAll(s, order) ELSE s
        s2 == IF due THEN update_door_open_state(s1) ELSE s1
    IN  IF s1.exc THEN [Caught(s1) EXCEPT !.main_pc = "loop_crashed"]
        ELSE [s2 EXCEPT !.poll_wait = POLL_INTERVAL_SEC]

\* a set is iterated in an order that differs from run to run
PollOrders == {ZoneSeq, <<"zone2", "zone1">>}

\* a pass of the loop; the aggregate is due in the passes that begin a second
\* or more after the last aggregate
PollLoop(due) ==
    /\ main_pc \in {"running", "noclient"}
    /\ RUNNING
    /\ poll_wait = 0
    /\ due => ErrCount("DOOR_OPEN") < MaxCount
    /\ \E o \in Oracles({}), order \in PollOrders :
         \E s \in {MainLoopPass(Cur(o), order, due)} :
            /\ Observe(s, NoMessage)
            /\ pulse' = [z \in Zones |-> PulseFollow(s, z)]

\* _cb after its sleep; the library prints an exception of a callback and
\* goes on
EdgeCallback(z) ==
    /\ main_pc = "running"
    /\ cb_wait[z] = 0
    /\ \E o \in Oracles({}) :
         \E s \in {[Caught(publish_contact_state(Cur(o), z)) EXCEPT !.cb_wait[z] = -1]} :
            /\ Observe(s, NoMessage)
            /\ pulse' = [y \in Zones |-> PulseFollow(s, y)]

Flip(lvl) == IF lvl = "HIGH" THEN "LOW" ELSE "HIGH"

\* the contact of an input pin opens or closes; where edge detection is
\* registered the library calls _cb unless the last call is less than
\* bouncetime ago
LevelChange(z) ==
    /\ main_pc = "running"
    /\ pin_mode[z] = "IN"
    /\ LET fire == z \in edge_detect /\ bounce_left[z] = 0
           s == [Cur(NoOracle) EXCEPT
                    !.pin_level[z] = Flip(@),
                    !.cb_wait[z] = IF fire THEN CB_SLEEP ELSE @,
                    !.bounce_left[z] = IF fire THEN BOUNCE_MS ELSE @]
       IN  /\ Commit(s)
           /\ window' =
                 IF <<"window", "contact_state">> \notin watch THEN window
                 ELSE [window EXCEPT ![z] =
                         IF @.left = 0
                         THEN [left |-> BOUNCE_MS, edges |-> 1, changes |-> 0]
                         ELSE [@ EXCEPT !.edges = IF @ < MaxCount THEN @ + 1 ELSE @]]
    /\ handled' = NoMessage
    /\ UNCHANGED <<bus_hist, watch, pulse>>

Elapse(n) == IF n > 0 THEN n - 1 ELSE n

\* 10 ms pass; a loop pass or a callback that is due runs first
TimeAdvance ==
    /\ main_pc \in {"running", "noclient"}
    /\ poll_wait > 0
    /\ \A z \in Zones : cb_wait[z] # 0
    /\ LET s == [Cur(NoOracle) EXCEPT
                    !.poll_wait = @ - 1,
                    !.cb_wait = [z \in Zones |-> Elapse(@[z])],
                    !.bounce_left = [z \in Zones |-> Elapse(@[z])]]
       IN  Commit(s)
    /\ window' = [z \in Zones |-> [window[z] EXCEPT !.left = Elapse(@)]]
    /\ handled' = NoMessage
    /\ UNCHANGED <<bus_hist, watch, pulse>>

(***************************************************************************)
(* Runs of the input side: the contacts move, the callbacks and the loop   *)
(* run, and zone1, an output at boot, may be made an input                 *)
(***************************************************************************)
InitInput ==
    /\ file = [zone1 |-> "output_toggle", zone2 |-> "door"]
    /\ faults_left = 0
    /\ watch = {<<"retained", "contact_state">>}
    /\ edge_ok \in {Zones, {}}
    /\ InitBus
    /\ InitZones
    /\ InitAcquire

\* the passes of the loop are those in which the aggregate is not due
NextInput ==
    \/ MainStart
    \/ ZoneSelect("zone1")
    \/ ClassSelect("door")
    \/ \E z \in Zones : LevelChange(z)
    \/ \E z \in Zones : EdgeCallback(z)
    \/ PollLoop(FALSE)
    \/ TimeAdvance

\* the loop of main() and the callback thread of the library are scheduled,
\* and time passes; the contacts and the dropdowns move when they move
SpecInput ==
    /\ InitInput
    /\ [][NextInput]_vars
    /\ WF_vars(PollLoop(FALSE))
    /\ WF_vars(TimeAdvance)
    /\ \A z \in Zones : WF_vars(EdgeCallback(z))

\* the contact of zone2 moves, on hardware with and without edge detection
BounceZone == "zone2"

InitBounce ==
    /\ file = [zone1 |-> "output_toggle", zone2 |-> "door"]
    /\ faults_left = 0
    /\ watch = {<<"retained", "contact_state">>, <<"published", "contact_state">>,
                <<"window", "contact_state">>}
    /\ edge_ok \in {Zones, {}}
    /\ InitBus
    /\ InitZones
    /\ InitAcquire

NextBounce ==
    \/ MainStart
    \/ LevelChange(BounceZone)
    \/ EdgeCallback(BounceZone)
    \/ \E due \in BOOLEAN : PollLoop(due)
    \/ TimeAdvance

SpecBounce == InitBounce /\ [][NextBounce]_vars

LevelPayload(z) == IF pin_level[z] = "HIGH" THEN "ON" ELSE "OFF"

InputNow(z) ==
    /\ main_pc = "running" /\ conn = "up"
    /\ ~is_output_class(device_class[z])

\* C12: while a zone is an input, a pin level that the retained state does
\* not show is followed by a retained state that shows the level of the pin
C12_LevelPublished ==
    \A z \in Zones :
        (InputNow(z) /\ retained[contact_state_topic(z)] # LevelPayload(z))
            ~> (~InputNow(z) \/ retained[contact_state_topic(z)] = LevelPayload(z))

\* C13: two level changes of a zone inside one debounce window are followed
\* by at most one published change of its state
C13_OneChangePerWindow ==
    \A z \in Zones : window[z].edges = 2 => window[z].changes <= 1

(***************************************************************************)
(* Pin reads and writes that raise: the switch of zone1 and its pulse      *)
(* timers, the contact of zone2 with its callback or the polling loop      *)
(***************************************************************************)
InitPinFault ==
    /\ file = [zone1 |-> "output_tap", zone2 |-> "door"]
    /\ faults_left = MaxFaults
    /\ watch = {<<"calls", "GPIO.input">>, <<"calls", "GPIO.output">>}
    /\ edge_ok \in {Zones, {}}
    /\ InitBus
    /\ InitZones
    /\ InitAcquire

NextPinFault ==
    \/ MainStart
    \/ \E p \in SwitchPayloads : SwitchCommand("zone1", p)
    \/ TimerWrite("zone1")
    \/ TimerPublish("zone1")
    \/ LevelChange("zone2")
    \/ EdgeCallback("zone2")
    \/ PollLoop(FALSE)
    \/ TimeAdvance

SpecPinFault == InitPinFault /\ [][NextPinFault]_vars

PinFault(q, kind) == \E i \in 1..Len(q) : q[i][1] = kind /\ q[i][3] = "raise"

\* the last step ran after the start-up (a start-up that fails ends main())
AfterStartup == main_pc \in {"running", "loop_crashed"}

\* a pin write that raised in the command handler or in a pulse timer left
\* GPIO_OUT live at P_HIGH
PinWriteFaultSurfaced ==
    (AfterStartup /\ PinFault(calls, "GPIO.output")) => LiveAt("GPIO_OUT", P_HIGH)

\* C17: after a step of the loop, of a callback, of the command handler or of
\* a pulse timer in which a pin read or write raised, GPIO_OUT is live at
\* P_HIGH and the loop of main() is still running
C17_PinFaultSurfaced ==
    (AfterStartup /\ (PinFault(calls, "GPIO.input") \/ PinFault(calls, "GPIO.output")))
        => (LiveAt("GPIO_OUT", P_HIGH) /\ main_pc = "running")

(***************************************************************************)
(* Availability: the session is lost and re-established while zone1 is     *)
(* switched, until the service is told to stop                             *)
(***************************************************************************)
\* handle_exit has cleared RUNNING: main() leaves its loop, publishes offline,
\* stops the network thread, disconnects and releases the pins
handle_exit(s) == [s EXCEPT !.RUNNING = FALSE]

client_loop_stop(s) ==
    IF Fails(s) THEN Raised(CallLog(Called(s), "loop_stop", BROKER, "raise"))
    ELSE CallLog(Called(s), "loop_stop", BROKER, "ok")

\* client.disconnect(): the session ends in order, the broker drops the will
client_disconnect(s) ==
    IF Fails(s) THEN Raised(CallLog(Called(s), "disconnect", BROKER, "raise"))
    ELSE [CallLog(Called(s), "disconnect", BROKER, "ok") EXCEPT !.conn = "down"]

GPIO_cleanup(s) ==
    IF Fails(s) THEN Raised(CallLog(Called(s), "GPIO.cleanup", "all", "raise"))
    ELSE [CallLog(Called(s), "GPIO.cleanup", "all", "ok")
            EXCEPT !.pin_mode = [z \in Zones |-> "UNSET"]]

\* the try block "if client: ..." after the loop; safe_publish raises nothing
ShutdownClient(s) ==
    LET s1 == safe_publish(s, availability_topic, "offline", "availability:offline")
        s2 == client_loop_stop(s1)
    IN  IF s2.exc THEN s2 ELSE client_disconnect(s2)

\* the process ends: a session that was not closed is cut, and the broker
\* publishes its will
ProcessExit(s, pc) ==
    [s EXCEPT !.main_pc = pc,
              !.conn = "down",
              !.retained[availability_topic] =
                  IF s.conn = "up" /\ <<"retained", "availability">> \in s.watch
                  THEN "offline" ELSE @]

\* a shutdown that releases the pins before it tells the broker
MainShutdown_cleanup_first(s) ==
    LET s1 == Caught(GPIO_cleanup(s))
        s2 == IF s.main_pc = "running" THEN Caught(ShutdownClient(s1)) ELSE s1
    IN  ProcessExit(s2, "stopped")

MainShutdown(s) ==
    LET s1 == IF s.main_pc = "running" THEN Caught(ShutdownClient(s)) ELSE s
        s2 == Caught(GPIO_cleanup(s1))
    IN  ProcessExit(s2, "stopped")

\* the status the process ends with: main() returns 0 after the loop and 2
\* when setup_gpio raised
ExitStatus(pc) == IF pc = "stopped" THEN 0 ELSE IF pc = "exited" THEN 2 ELSE -1

\* SIGINT or SIGTERM arrives while main() is in its loop
HandleExit ==
    /\ main_pc \in {"running", "noclient"}
    /\ RUNNING
    /\ \E s \in {handle_exit(Cur(NoOracle))} :
          /\ Observe(s, NoMessage)
          /\ pulse' = [z \in Zones |-> PulseFollow(s, z)]

\* the loop finds RUNNING cleared when the sleep of its pass is over
Shutdown ==
    /\ main_pc \in {"running", "noclient"}
    /\ ~RUNNING
    /\ poll_wait = 0
    /\ \E o \in Oracles({}) :
         \E s \in {MainShutdown(Cur(o))} :
            /\ Observe(s, NoMessage)
            /\ pulse' = [z \in Zones |-> PulseFollow(s, z)]

InitLink ==
    /\ file = [zone1 |-> "output_tap", zone2 |-> "door"]
    /\ faults_left = 0
    /\ watch = {<<"retained", "availability">>, <<"retained", "switch_state">>}
    /\ edge_ok = Zones
    /\ InitBus
    /\ InitZones
    /\ InitAcquire

NextLink ==
    \/ MainStart
    \/ \E p \in SwitchPayloads : SwitchCommand("zone1", p)
    \/ TimerWrite("zone1")
    \/ TimerPublish("zone1")
    \/ Disconnect
    \/ \E rc \in {0, 5}, flush \in BOOLEAN : Reconnect(rc, flush)
    \/ HandleExit
    \/ Shutdown

\* main() runs, the network thread of the client keeps trying to reconnect
\* (loop_start), and the pulse timers wake up
SpecLink ==
    /\ InitLink
    /\ [][NextLink]_vars
    /\ WF_vars(\E rc \in {0, 5}, flush \in BOOLEAN : Reconnect(rc, flush))
    /\ WF_vars(TimerWrite("zone1"))
    /\ WF_vars(TimerPublish("zone1"))

Connected == main_pc = "running" /\ RUNNING /\ conn = "up"

\* C16: while the session is connected and the shutdown has not begun, the
\* retained availability becomes online
C16_OnlineWhileConnected ==
    Connected ~> (retained[availability_topic] = "online" \/ ~Connected)

(***************************************************************************)
(* A transition that is interrupted and replayed: the process is killed    *)
(* after step 1, the service manager starts it again, and the operator     *)
(* sends the same pick again                                               *)
(***************************************************************************)
ReplayZone == "zone1"
ReplayClass == "door"

\* what a new process starts with: the module text; the file, the pins'
\* levels, the clock and the broker's retained messages are outside it
FreshProcess(s) ==
    [s EXCEPT !.errors = <<>>, !.dirty = TRUE, !.last_logged_fp = <<>>,
              !.device_class = [z \in Zones |-> "opening"],
              !.pin_mode = [z \in Zones |-> "UNSET"],
              !.contact_states = [z \in Zones |-> FALSE],
              !.last_contact_change_key = "",
              !.selected_zone = ZONE_PLACEHOLDER,
              !.selected_class = CLASS_PLACEHOLDER,
              !.timers = [z \in Zones |-> [sleep |-> 0, wrote |-> 0]],
              !.edge_detect = {}, !.polled_keys = {},
              !.last_polled = [z \in Zones |-> "None"],
              !.cb_wait = [z \in Zones |-> -1],
              !.bounce_left = [z \in Zones |-> 0],
              !.poll_wait = 0, !.mqtt_ok = FALSE, !.RUNNING = TRUE,
              !.save = [@ EXCEPT !.pc = IF @ = "none" THEN "none" ELSE "idle"],
              !.pcs = [t \in Threads |-> NoCall],
              !.oled = NoDraw,
              !.outbox = [tp \in Topics |-> <<>>],
              !.main_pc = "import"]

\* the process dies while _on_message is between step 1 and step 2 of the
\* transition of the pending zone to class c; the broker ends the session
KillAfterPersist(c) ==
    /\ main_pc = "running"
    /\ TOP_CLASS_SET \in subscribed
    /\ selected_zone \in Zones
    /\ device_class[selected_zone] # c
    /\ \E o \in Oracles({}) :
         \E s \in {PersistClass(Cur(o), selected_zone, c)} :
            /\ Observe([s EXCEPT !.main_pc = "killed", !.conn = "down",
                                  !.subscribed = {}],
                       NoMessage)
            /\ UNCHANGED pulse

\* the service manager starts the program again
Restart ==
    /\ main_pc = "killed"
    /\ Observe(FreshProcess(Cur(NoOracle)), NoMessage)
    /\ UNCHANGED pulse

InitReplay ==
    /\ file = [zone1 |-> "output_tap", zone2 |-> "door"]
    /\ faults_left = 0
    /\ watch = {<<"retained", "discovery">>, <<"handled", "select_set">>}
    /\ edge_ok = Zones
    /\ InitBus
    /\ InitZones
    /\ InitAcquire

NextReplay ==
    \/ MainStart
    \/ ImportModule
    \/ \E p \in {ReplayZone, ZONE_PLACEHOLDER} : ZoneSelect(p)
    \/ ClassSelect(ReplayClass)
    \/ \E p \in SwitchPayloads : SwitchCommand(ReplayZone, p)
    \/ TimerWrite(ReplayZone)
    \/ TimerPublish(ReplayZone)
    \/ KillAfterPersist(ReplayClass)
    \/ Restart

SpecReplay == InitReplay /\ [][NextReplay]_vars

\* C15: whenever the pick (ReplayZone, ReplayClass) has just been handled,
\* for the first time, again after it was applied, or again after a run that
\* was interrupted after step 1, the zone is in the state one uninterrupted
\* transition produces: the class, the pin direction of the class, the class
\* in the persisted map, the descriptor of the class on the topic of its
\* category and no descriptor on the other
C15_ReplaySafe ==
    (handled = <<TOP_CLASS_SET, ReplayClass>> /\ selected_zone = ReplayZone) =>
        /\ device_class[ReplayZone] = ReplayClass
        /\ pin_mode[ReplayZone] = PinDirection(ReplayClass)
        /\ ReplayZone \in DOMAIN file /\ file[ReplayZone] = ReplayClass
        /\ DiscoveryHeld(ReplayZone) = <<BinaryDescriptor(ReplayClass), "">>

(***************************************************************************)
(* Stopping the service: the signal arrives at any point of the loop, with *)
(* or without a client, the session up or down, and a library call of the  *)
(* shutdown may raise                                                      *)
(***************************************************************************)
InitStop ==
    /\ file = [zone1 |-> "output_tap", zone2 |-> "door"]
    /\ faults_left = MaxFaults
    /\ watch = {<<"calls", "publish">>, <<"calls", "loop_stop">>,
                <<"calls", "disconnect">>, <<"calls", "GPIO.cleanup">>,
                <<"published", "availability">>, <<"retained", "availability">>}
    /\ edge_ok = Zones
    /\ InitBus
    /\ InitZones
    /\ InitAcquire

NextStop ==
    \/ MainStart
    \/ PollLoop(FALSE)
    \/ TimeAdvance
    \/ Disconnect
    \/ \E flush \in BOOLEAN : Reconnect(0, flush)
    \/ HandleExit
    \/ Shutdown

\* the main thread is scheduled, and its sleep ends
SpecStop ==
    /\ InitStop
    /\ [][NextStop]_vars
    /\ WF_vars(TimeAdvance)
    /\ WF_vars(Shutdown)

InLoop == main_pc \in {"running", "noclient"}

CallKinds(c) == [i \in 1..Len(c) |-> c[i][1]]

\* the step in which main() leaves its loop and returns
StopStep == InLoop /\ main_pc' = "stopped"

C22_StopStep ==
    /\ (InLoop /\ ~RUNNING) => ~(poll_wait = 0 /\ poll_wait' = POLL_INTERVAL_SEC)
    /\ StopStep =>
         /\ ~RUNNING
         /\ poll_wait = 0
         /\ ExitStatus(main_pc') = 0
         /\ conn' = "down"
         /\ main_pc = "noclient" => CallKinds(calls') = <<"GPIO.cleanup">>
         /\ main_pc = "running" =>
              /\ CallKinds(calls') \in
                    {<<"publish", "loop_stop", "disconnect", "GPIO.cleanup">>,
                     <<"publish", "loop_stop", "GPIO.cleanup">>}
              /\ calls'[1][2] = availability_topic
              /\ Len(calls') = 3 => calls'[2][3] = "raise"
              /\ calls'[1][3] = "ok" => published' = <<<<availability_topic, "offline">>>>
              /\ faults_left' = faults_left =>
                    /\ Len(calls') = 4
                    /\ \A i \in 1..4 : calls'[i][3] = "ok"
                    /\ pin_mode' = [z \in Zones |-> "UNSET"]
                    /\ conn = "up" => retained'[availability_topic] = "offline"

\* C22: once the shutdown flag is set the main loop begins no further pass and
\* leaves when the sleep of its pass is over; the shutdown then publishes the
\* retained offline on the availability topic, disconnects the transport and
\* releases the pins, in this order, and the process ends with status 0.
C22_ShutdownOrder ==
    /\ [][C22_StopStep]_vars
    /\ (InLoop /\ ~RUNNING) ~> (main_pc = "stopped")

\* a service with a client and a live session was stopped: offline published,
\* then the disconnect, then the pins
C22_Witness ==
    /\ main_pc = "stopped"
    /\ ~RUNNING
    /\ calls = <<<<"publish", availability_topic, "ok">>,
                 <<"loop_stop", BROKER, "ok">>,
                 <<"disconnect", BROKER, "ok">>,
                 <<"GPIO.cleanup", "all", "ok">>>>
    /\ published = <<<<availability_topic, "offline">>>>
    /\ retained[availability_topic] = "offline"
    /\ pin_mode = [z \in Zones |-> "UNSET"]

(***************************************************************************)
(* The persisted map across a transition (SpecFault)                       *)
(***************************************************************************)
\* the zone whose class the step changed
Reclassed(z) == device_class'[z] # device_class[z]

\* C23: after the persist step of a transition of zone z to class c the
\* persisted map holds c for z and still holds the valid class every other
\* zone had in it, also when the read of the read-modify-write fails; the
\* class of every zone in memory is then what a reload of the persisted map,
\* with the opening default, yields.
C23_PersistKeepsOthers ==
    [][\A z \in Zones :
          (handled'[1] = TOP_CLASS_SET /\ Reclassed(z)) =>
              /\ z \in DOMAIN file'
              /\ file'[z] = device_class'[z]
              /\ \A y \in DOMAIN LoadedMap(file) \ {z} :
                    /\ y \in DOMAIN file'
                    /\ file'[y] = LoadedMap(file)[y]
              /\ BootClasses(file') = device_class']_vars

(***************************************************************************)
(* save_zone_classes step by step: open the .tmp file, json.dump into it,  *)
(* close it, os.replace; any step may raise, and the process may be killed *)
(* between any two steps                                                   *)
(***************************************************************************)
\* a save that opens the file itself for writing
save_open_in_place(s, zmap) ==
    [s EXCEPT !.file = <<>>,
              !.save = [pc |-> "opened", zmap |-> zmap, old |-> s.file,
                        tmp_exists |-> @.tmp_exists, tmp_data |-> @.tmp_data,
                        tmp_complete |-> @.tmp_complete]]

\* open(tmp, "w"): the .tmp file is created, or emptied if an earlier save
\* left one
save_open(s, zmap) ==
    [s EXCEPT !.save = [pc |-> "opened", zmap |-> zmap, old |-> s.file,
                        tmp_exists |-> TRUE, tmp_data |-> <<>>,
                        tmp_complete |-> FALSE]]

\* the keys json.dump(sort_keys=True) has yet to write
ToWrite(sv) == SelectSeq(ZoneSeq, LAMBDA z : z \in DOMAIN sv.zmap \ DOMAIN sv.tmp_data)

\* json.dump writes the map piece by piece: the next entry, or the closing
\* brace after the last one
save_write(s) ==
    LET q == ToWrite(s.save) IN
    IF q = <<>>
    THEN [s EXCEPT !.save.tmp_complete = TRUE, !.save.pc = "written"]
    ELSE [s EXCEPT !.save.tmp_data = (Head(q) :> s.save.zmap[Head(q)]) @@ @]

\* os.replace(tmp, CONFIG_PATH): one rename
os_replace(s) ==
    [s EXCEPT !.file = s.save.tmp_data,
              !.save.tmp_exists = FALSE, !.save.tmp_data = <<>>,
              !.save.tmp_complete = FALSE, !.save.pc = "idle"]

SaveStep(s) ==
    /\ Observe(s, NoMessage)
    /\ UNCHANGED pulse

SaveMaps ==
    {[zone1 |-> "door"], [zone1 |-> "output_tap", zone2 |-> "door"],
     [zone1 |-> "window", zone2 |-> "window"]}

SaveOpen(zmap) ==
    /\ main_pc = "running"
    /\ save.pc \in {"none", "idle"}
    /\ SaveStep(save_open(Cur(NoOracle), zmap))

SaveWrite ==
    /\ main_pc = "running"
    /\ save.pc = "opened"
    /\ SaveStep(save_write(Cur(NoOracle)))

SaveReplace ==
    /\ main_pc = "running"
    /\ save.pc = "written"
    /\ SaveStep(os_replace(Cur(NoOracle)))

\* open, json.dump or os.replace raises; except Exception: pass
SaveRaise ==
    /\ main_pc = "running"
    /\ save.pc \in {"opened", "written"}
    /\ SaveStep([Cur(NoOracle) EXCEPT !.save.pc = "idle"])

\* the process is killed, at any point
Kill ==
    /\ main_pc = "running"
    /\ SaveStep([Cur(NoOracle) EXCEPT !.main_pc = "killed", !.conn = "down",
                                      !.subscribed = {}])

InitSave ==
    /\ file \in {<<>>, [zone1 |-> "door", zone2 |-> "door"]}
    /\ faults_left = 0
    /\ watch = {<<"retained", "discovery">>}
    /\ edge_ok = Zones
    /\ InitBus
    /\ InitZones
    /\ InitAcquire

NextSave ==
    \/ MainStart
    \/ \E zmap \in SaveMaps : SaveOpen(zmap)
    \/ SaveWrite
    \/ SaveReplace
    \/ SaveRaise
    \/ Kill
    \/ Restart
    \/ ImportModule

SpecSave == InitSave /\ [][NextSave]_vars

\* C24: at every instant, also when the process was killed or a step raised
\* between any two steps of save_zone_classes, the persisted file holds the
\* complete map of before the save or the complete map that was to be saved,
\* never a part of one.
C24_AtomicReplace ==
    save.pc # "none" => file \in {save.old, save.zmap}

\* the process was killed while json.dump had written one of two entries: the
\* part is in the .tmp file, the persisted file is the one of before
C24_Witness ==
    /\ main_pc = "killed"
    /\ save.pc = "opened"
    /\ save.tmp_exists
    /\ ~save.tmp_complete
    /\ DOMAIN save.tmp_data = {"zone1"}
    /\ DOMAIN save.zmap = Zones
    /\ file = save.old
    /\ file # save.zmap
    /\ file # <<>>

(***************************************************************************)
(* publish_contact_state step by step, in the callback thread and in the   *)
(* network thread at once: the class test, the pin read, the update of     *)
(* _contact_states under _state_lock, and the publish are four steps that  *)
(* the other thread may run between                                        *)
(***************************************************************************)
pcs_enter(s, t, z) == [s EXCEPT !.pcs[t] = [pc |-> "check", zone |-> z, is_open |-> FALSE]]

\* the state of thread t when its call returns: the callback is over; the
\* network thread goes on in _on_message
pcs_return(s, t) ==
    [s EXCEPT !.pcs[t] = IF t = "net" THEN [NoCall EXCEPT !.pc = "returned"] ELSE NoCall]

\* the next step of the call of thread t
pcs_step(s, t) ==
    LET c == s.pcs[t]
        z == c.zone
    IN  CASE c.pc = "check" ->
               IF is_output_class(s.device_class[z]) THEN pcs_return(s, t)
               ELSE [s EXCEPT !.pcs[t].pc = "read"]
          [] c.pc = "read" ->
               LET r == GPIO_input(s, z) IN
               IF r.exc THEN pcs_return(Caught(r), t)
               ELSE [r EXCEPT !.pcs[t].pc = "update",
                              !.pcs[t].is_open = (s.pin_level[z] = "HIGH")]
          [] c.pc = "update" ->
               IF s.contact_states[z] # c.is_open
               THEN [s EXCEPT !.contact_states[z] = c.is_open,
                              !.last_contact_change_key = z,
                              !.pcs[t].pc = "publish"]
               ELSE [s EXCEPT !.pcs[t].pc = "publish"]
          [] OTHER ->
               pcs_return(safe_publish(s, contact_state_topic(z),
                                       IF c.is_open THEN "ON" ELSE "OFF", "state"), t)

RaceZone == "zone1"

RaceStep(s, msg) ==
    /\ Observe(s, msg)
    /\ UNCHANGED pulse

\* the contact of an input zone with edge detection moves when the callback of
\* the move before is over, and the library calls _cb
ContactMoves(z) ==
    /\ main_pc = "running"
    /\ z \in edge_detect
    /\ pin_mode[z] = "IN"
    /\ pcs["cb"].pc = "idle"
    /\ RaceStep(pcs_enter([Cur(NoOracle) EXCEPT !.pin_level[z] = Flip(@)], "cb", z),
                NoMessage)

ThreadStep(t) ==
    /\ main_pc = "running"
    /\ pcs[t].pc \in {"check", "read", "update", "publish"}
    /\ \E o \in Oracles({}) : RaceStep(pcs_step(Cur(o), t), NoMessage)

\* _on_message with a class pick that moves the pending zone to another input
\* class: up to the call of publish_contact_state in step 5 (the contact is
\* where it was: its moves are those of ContactMoves)
InputClassSelect(c) ==
    /\ main_pc = "running"
    /\ TOP_CLASS_SET \in subscribed
    /\ pcs["net"].pc = "idle"
    /\ selected_zone \in Zones
    /\ ~is_output_class(c)
    /\ device_class[selected_zone] # c
    /\ \E o \in {x \in Oracles({selected_zone}) :
                    x.level[selected_zone] = pin_level[selected_zone]} :
         \E s \in {ApplyUntilSeed([Cur(o) EXCEPT !.selected_class = c],
                                  selected_zone, c)} :
            RaceStep(pcs_enter(s, "net", selected_zone), <<TOP_CLASS_SET, c>>)

\* the rest of the handler when the call has returned
InputClassSelectEnd ==
    /\ main_pc = "running"
    /\ pcs["net"].pc = "returned"
    /\ \E o \in Oracles({}) :
         \E s \in {safe_publish([Cur(o) EXCEPT !.pcs["net"] = NoCall], TOP_CLASS_STATE,
                                CLASS_PLACEHOLDER, "class_state:bounce")} :
            RaceStep(s, NoMessage)

\* the handlers of the network thread run one after the other
NetIdle == pcs["net"].pc = "idle"

InitRace ==
    /\ file = [zone1 |-> "door", zone2 |-> "door"]
    /\ faults_left = 0
    /\ watch = {<<"retained", "contact_state">>, <<"published", "contact_state">>}
    /\ edge_ok = Zones
    /\ InitBus
    /\ InitZones
    /\ InitAcquire

NextRace ==
    \/ MainStart
    \/ NetIdle /\ ZoneSelect(RaceZone)
    \/ NetIdle /\ \E c \in {"output_toggle"} : ClassSelect(c)
    \/ \E c \in {"door", "window"} : InputClassSelect(c)
    \/ InputClassSelectEnd
    \/ ContactMoves(RaceZone)
    \/ \E t \in Threads : ThreadStep(t)

SpecRace == InitRace /\ [][NextRace]_vars

ContactPubs(q, z) == SelectSeq(q, LAMBDA m : m[1] = contact_state_topic(z))

\* C25: while the role of a zone is output no input state of it is published
\* and its recorded input state is not updated: a thread that runs
\* publish_contact_state does not go on with it after the zone was made an
\* output.
C25_NoInputStateOfOutput ==
    [][\A z \in Zones :
          (is_output_class(device_class[z]) /\ is_output_class(device_class'[z])) =>
              /\ ContactPubs(published', z) = <<>>
              /\ contact_states'[z] = contact_states[z]]_vars

Quiet(z) ==
    /\ main_pc = "running"
    /\ \A t \in Threads : pcs[t].pc = "idle"
    /\ ~is_output_class(device_class[z])
    /\ pin_mode[z] = "IN"

\* C26: the state publishes of an input zone are issued in the order in which
\* the states were read, whatever the interleaving of the threads: when the pin
\* has stopped moving and every thread has finished, the retained state of the
\* zone is the level of its pin and the recorded state of the zone.
C26_LastPublishIsLevel ==
    Quiet(RaceZone) =>
        /\ retained[contact_state_topic(RaceZone)] = LevelPayload(RaceZone)
        /\ contact_states[RaceZone] = (pin_level[RaceZone] = "HIGH")

(***************************************************************************)
(* Blocking I/O and the locks: the critical sections of _state_lock and of *)
(* _select_lock hold assignments only; those of the ErrorBus lock hold the *)
(* logger call of raise_error and of clear_error                           *)
(***************************************************************************)
InitIo ==
    /\ file = [zone1 |-> "output_tap", zone2 |-> "door"]
    /\ faults_left = 0
    /\ watch = {<<"io", "locks">>}
    /\ edge_ok = Zones
    /\ InitBus
    /\ InitZones
    /\ InitAcquire

NextIo ==
    \/ MainStart
    \/ \E p \in SwitchPayloads : SwitchCommand("zone1", p)
    \/ ZoneSelect("zone1")
    \/ \E c \in {"door", "output_toggle"} : ClassSelect(c)
    \/ TimerWrite("zone1")
    \/ TimerPublish("zone1")
    \/ \E due \in BOOLEAN : PollLoop(due)
    \/ TimeAdvance
    \/ Disconnect
    \/ \E flush \in BOOLEAN : Reconnect(0, flush)

SpecIo == InitIo /\ [][NextIo]_vars

\* C27: no publish, no write of the persisted map and no write of a log file
\* is made by a thread that holds the registry lock, the selection lock or the
\* lock of the ErrorBus.
C27_NoIoUnderLock ==
    \A i \in 1..Len(io) : io[i][2] = {}

(***************************************************************************)
(* The seed of a switch: zone1 is switched and moved between the classes,  *)
(* and a library call may raise                                            *)
(***************************************************************************)
SeedZone == "zone1"

InitSeed ==
    /\ file = [zone1 |-> "output_toggle", zone2 |-> "door"]
    /\ faults_left = MaxFaults
    /\ watch = {<<"calls", "GPIO.setup">>, <<"published", "switch_state">>,
                <<"pulse", "switch_state">>, <<"handled", "select_set">>}
    /\ edge_ok = Zones
    /\ InitBus
    /\ InitZones
    /\ InitAcquire

\* a switch command is sent when the pulses of the commands before are over;
\* the class is picked at any time, also while a pulse is under way
NextSeed ==
    \/ MainStart
    \/ AllPending = 0 /\ \E p \in SwitchPayloads : SwitchCommand(SeedZone, p)
    \/ ZoneSelect(SeedZone)
    \/ \E c \in {"door", "output_toggle", "output_tap"} : ClassSelect(c)
    \/ TimerWrite(SeedZone)
    \/ TimerPublish(SeedZone)

SpecSeed == InitSeed /\ [][NextSeed]_vars

\* C28: every applied class change to an output class, also one between
\* output_toggle and output_tap while the output is ON, sets the pin up as an
\* output at the idle (LOW) level: the step calls GPIO.setup on the pin of the
\* zone once, and when that call succeeds the pin is an output at LOW and
\* whatever the step publishes on the switch state topic of the zone is OFF
\* (the seed, which a step without a library fault publishes).
C28_OutputClassResetsPin ==
    [][\A z \in Zones :
          (handled'[1] = TOP_CLASS_SET /\ Reclassed(z)
             /\ is_output_class(device_class'[z])) =>
              /\ Len(calls') = 1
              /\ calls'[1][1] = "GPIO.setup" /\ calls'[1][2] = PinOf(z)
              /\ calls'[1][3] = "ok" =>
                    /\ pin_mode'[z] = "OUT"
                    /\ pin_level'[z] = "LOW"
                    /\ \A i \in 1..Len(SwitchPubs([published |-> published'], z)) :
                          SwitchPubs([published |-> published'], z)[i] = "OFF"
              /\ faults_left' = faults_left =>
                    SwitchPubs([published |-> published'], z) = <<"OFF">>]_vars

\* zone1, an output_toggle that was switched ON, has just been made an
\* output_tap: its pin is LOW and OFF was published after the ON
C28_Witness ==
    /\ handled = <<TOP_CLASS_SET, "output_tap">>
    /\ device_class[SeedZone] = "output_tap"
    /\ pulse[SeedZone].cmd = "ON"
    /\ pulse[SeedZone].cls = "output_toggle"
    /\ pulse[SeedZone].reclassed
    /\ pulse[SeedZone].pubs = <<"ON", "OFF">>
    /\ calls = <<<<"GPIO.setup", PinOf(SeedZone), "ok">>>>
    /\ pin_mode[SeedZone] = "OUT"
    /\ pin_level[SeedZone] = "LOW"
    /\ published = <<<<switch_state_topic(SeedZone), "OFF">>>>

(***************************************************************************)
(* The pin faults of the ErrorBus (SpecFault)                              *)
(***************************************************************************)
PinFaultKeys == {"GPIO_MODE", "GPIO_OUT"}

PinFaultLive == \E k \in PinFaultKeys : HasKey(errors, k)

C29_TopIsUrgent ==
    PinFaultLive =>
        /\ snapshot_top(Cur(NoOracle)) # NoTop
        /\ snapshot_top(Cur(NoOracle))[1].priority <= P_HIGH

C29_StaysLive ==
    \A k \in PinFaultKeys : HasKey(errors, k) => HasKey(errors', k)

\* C29: once GPIO_MODE or GPIO_OUT has been raised the key stays live for the
\* rest of the run, whatever is handled later, also a pin set-up or a pin write
\* that succeeds; so snapshot_top returns from then on an item of priority
\* P_HIGH or more urgent.
C29_PinFaultsStay == []C29_TopIsUrgent /\ [][C29_StaysLive]_vars

\* GPIO_MODE was raised once, and the class pick handled last has set the pin
\* of zone1 up without a failure
C29_Witness ==
    /\ HasKey(errors, "GPIO_MODE")
    /\ ItemOf(errors, "GPIO_MODE").count = 1
    /\ handled[1] = TOP_CLASS_SET
    /\ \E i \in 1..Len(calls) : calls[i] = <<"GPIO.setup", PinOf(FaultZone), "ok">>
    /\ pin_mode[FaultZone] = PinDirection(device_class[FaultZone])

(***************************************************************************)
(* The OLED thread as the consumer of the ErrorBus: _draw_once takes the   *)
(* snapshot, draws, and marks the bus clean, while the other threads raise *)
(* and clear                                                               *)
(***************************************************************************)
\* what _draw_once puts on the display for a snapshot: nothing for no item and
\* for an item of priority P_LOW or less urgent, else the key and the message
Display(top) ==
    IF top = NoTop \/ top[1].priority >= P_LOW THEN <<>>
    ELSE <<top[1].key, top[1].message>>

\* top, dirty = ERRORS.snapshot_top(); if not dirty: return
draw_snapshot(s) ==
    IF ~snapshot_dirty(s) THEN s
    ELSE [s EXCEPT !.oled.pc = "draw", !.oled.top = snapshot_top(s)]

\* the drawing of the snapshot taken, then ERRORS.mark_clean()
draw_finish(s) ==
    mark_clean([s EXCEPT !.oled = [pc |-> "idle", top |-> <<>>,
                                   shown |-> Display(s.oled.top)]])

OledSnapshot ==
    /\ oled.pc = "idle"
    /\ dirty
    /\ BusStep(draw_snapshot(Cur(NoOracle)))
    /\ UNCHANGED bus_hist

OledFinish ==
    /\ oled.pc = "draw"
    /\ BusStep(draw_finish(Cur(NoOracle)))
    /\ UNCHANGED bus_hist

OledKeys == {"GPIO_OUT", "DOOR_OPEN"}
OledMessages == {Msg("GPIO output set failed:", "zone1"), Msg("Doors/Windows open:", "1")}

InitOled ==
    /\ file = <<>>
    /\ faults_left = 0
    /\ watch = {}
    /\ edge_ok = Zones
    /\ InitBus
    /\ InitZones
    /\ InitAcquire

NextOled ==
    \/ \E k \in OledKeys, m \in OledMessages, p \in BusPriorities :
          BusRaise(k, m, p, NoneMeta)
    \/ \E k \in OledKeys : BusClear(k)
    \/ OledSnapshot
    \/ OledFinish

SpecOled == InitOled /\ [][NextOled]_vars

\* C30: the consumer loses no update: a raise_error or clear_error that runs
\* between its snapshot_top and its mark_clean leaves the flag set for its next
\* snapshot_top; so whenever the consumer is between two draws and the flag is
\* clear, the display shows the top item of the bus.
C30_NoLostUpdate ==
    (oled.pc = "idle" /\ ~dirty) => oled.shown = Display(snapshot_top(Cur(NoOracle)))

====
